---- MODULE Spec2Model ----
(***************************************************************************)
(* Model of the statistics aggregation and report pipeline of the          *)
(* file-transfer experiment harness:                                       *)
(*   src/utils.py    Statistics.calculate_statistics,                      *)
(*                   Statistics.process_experiment_results                 *)
(*   src/analyze.py  parse_results, merge_protocol_results, create_excel,  *)
(*                   main                                                  *)
(*                                                                         *)
(* Numbers.  The code computes in floating point.  The model computes in   *)
(* exact arithmetic: a number is a rational [n, d] in lowest terms, and a  *)
(* standard deviation, which the code obtains from math.sqrt, is the       *)
(* non-negative root of a rational, kept as [sq |-> that rational].        *)
(* Rounding of the floating point operations is not modelled.              *)
(*                                                                         *)
(* Strings.  Dictionary keys that the code splits and searches are         *)
(* sequences of one-character strings, so that split('_') and the          *)
(* substring test `in` are computed, not assumed.                          *)
(***************************************************************************)
EXTENDS Integers, Sequences, FiniteSets, TLC

VARIABLES
    pc,              \* position of the running program
    raised,          \* name of the exception that ended the run, or "none"
    results,         \* utils.py: the samples handed to the aggregator
    summary,         \* utils.py: what process_experiment_results returned
    stats,           \* utils.py: what calculate_statistics returned
    result_files,    \* analyze.py main: the documents glob.glob discovered
    file_idx,        \* analyze.py main: number of documents parsed so far
    protocol_files,  \* analyze.py main: protocol -> list of parsed results
    proto_idx,       \* analyze.py main: number of protocols merged so far
    all_file_sizes,  \* merge_protocol_results: keys still to be iterated
    merged_data,     \* merge_protocol_results: the accumulating result
    size_results,    \* merge_protocol_results: label -> summaries combined
    protocol_data,   \* analyze.py main: protocol -> merged data
    workbook,        \* create_excel: the sheets written
    disk,            \* the files below the directory analyze.py runs in
    FINISHED_CLIENTS, \* seeder.py: the clients that acked the current run
    LOGGED,          \* seeder.py: the current run has been logged
    seeder_pc,       \* seeder.py main: position of the seeding loop
    log_file,        \* seeder.py main: the run summaries in the log file
    torrents,        \* seeder.py main: number of times the torrent was added
    client_pc,       \* bitTorrent/client.py main: position of each client
    client_run,      \* bitTorrent/client.py main: the run each client is in
    client,          \* the HTTP client program that is running
    responses,       \* what the server does at each attempt of each experiment
    exp_idx,         \* HTTP client: number of experiments finished
    attempts,        \* HTTP client: download attempts made, per experiment
    results_data,    \* HTTP client: the "files" object of its document
    server_files,    \* http2/server.py: the files on the server's machine
    requests,        \* http2/server.py: the :path of the requests to come
    sent,            \* http2/server.py: the responses sent so far
    history          \* history of the handshake: what was logged and when

stats_vars == <<results, summary, stats>>

analyze_vars == <<result_files, file_idx, protocol_files, proto_idx,
                  all_file_sizes, merged_data, size_results, protocol_data,
                  workbook, disk>>

\* the state of the programs that talk over the network
net_vars == <<FINISHED_CLIENTS, LOGGED, seeder_pc, log_file, torrents,
              client_pc, client_run, client, responses, exp_idx, attempts,
              results_data, server_files, requests, sent, history>>

vars == <<pc, raised, stats_vars, analyze_vars, net_vars>>

(***************************************************************************)
(* Bounds of the model.                                                    *)
(***************************************************************************)
\* longest sample sequence handed to the aggregator
MaxN == 3
\* sample values are 0..MaxVal
MaxVal == 3
\* result files draw their entries from Entry(0)..Entry(MaxEntry)
MaxEntry == 4
\* number of result files of one run
MaxFiles == 2
\* number of entries of a result file that holds several
MaxKeys == 2

(***************************************************************************)
(* Exact arithmetic.                                                       *)
(***************************************************************************)
Abs(x) == IF x < 0 THEN -x ELSE x

RECURSIVE GCD(_, _)
GCD(a, b) == IF b = 0 THEN a ELSE GCD(b, a % b)

\* the rational n/d (d # 0) in lowest terms with a positive denominator
Rat(n, d) ==
    LET s == IF d < 0 THEN -1 ELSE 1
        g == GCD(Abs(n), Abs(d))
    IN  [n |-> (s * n) \div g, d |-> (s * d) \div g]

RatOfInt(i) == [n |-> i, d |-> 1]
Zero == RatOfInt(0)

RAdd(a, b) == Rat(a.n * b.d + b.n * a.d, a.d * b.d)
RSub(a, b) == Rat(a.n * b.d - b.n * a.d, a.d * b.d)
RMul(a, b) == Rat(a.n * b.n, a.d * b.d)
\* a / k for an integer k # 0
RDiv(a, k) == Rat(a.n, a.d * k)
RLess(a, b) == a.n * b.d < b.n * a.d

\* Python's sum() over a list of rationals
RECURSIVE RSum(_)
RSum(s) == IF s = <<>> THEN Zero ELSE RAdd(Head(s), RSum(Tail(s)))

\* math.sqrt(x) for x >= 0: the non-negative number whose square is x
Sqrt(x) == [sq |-> x]
\* s ** 2 for a number s that is a root
Square(s) == s.sq
\* the literal 0 where the code stores it as a standard deviation
StdZero == Sqrt(Zero)
\* the standard deviation with the integer value k >= 0
StdOfInt(k) == Sqrt(RatOfInt(k * k))

\* the empty dictionary {}
EmptyDict == [k \in {} |-> 0]

\* [f(x) for x in s]
Map(f(_), s) == [i \in 1..Len(s) |-> f(s[i])]
\* [x for x in s if keep(x)]
RECURSIVE Filter(_, _)
Filter(keep(_), s) ==
    IF s = <<>> THEN <<>>
    ELSE IF keep(Head(s)) THEN <<Head(s)>> \o Filter(keep, Tail(s))
         ELSE Filter(keep, Tail(s))

(***************************************************************************)
(* Strings as sequences of characters.                                     *)
(***************************************************************************)
\* Python's `sub in s` for strings
Contains(sub, s) ==
    \E i \in 1..(Len(s) - Len(sub) + 1) : SubSeq(s, i, i + Len(sub) - 1) = sub

\* '_' in s
HasUnderscore(s) == \E i \in 1..Len(s) : s[i] = "_"

\* the position of the first '_' at or after position from, Len(s)+1 if none
RECURSIVE NextUnderscore(_, _)
NextUnderscore(s, from) ==
    IF from > Len(s) THEN Len(s) + 1
    ELSE IF s[from] = "_" THEN from
         ELSE NextUnderscore(s, from + 1)

\* s.split('_')[1] for a string s that holds a '_'
SplitField1(s) ==
    LET a == NextUnderscore(s, 1)
        b == NextUnderscore(s, a + 1)
    IN  SubSeq(s, a + 1, b - 1)

L10kB == <<"1", "0", "k", "B">>
L100kB == <<"1", "0", "0", "k", "B">>
L1MB == <<"1", "M", "B">>
L10MB == <<"1", "0", "M", "B">>
R10240 == <<"1", "0", "2", "4", "0">>
R102400 == <<"1", "0", "2", "4", "0", "0">>
R1048576 == <<"1", "0", "4", "8", "5", "7", "6">>
R10485760 == <<"1", "0", "4", "8", "5", "7", "6", "0">>
R999999 == <<"9", "9", "9", "9", "9", "9">>
\* prefix + '_' + size, the file names the clients request
Prefixed(prefix, size) == <<prefix, "_">> \o size

(***************************************************************************)
(* src/utils.py: Statistics                                                *)
(***************************************************************************)
\* Statistics.calculate_statistics without the n - 1 of the sample variance
calculate_statistics_population(values) ==
    LET n == Len(values)
        mean_val == RDiv(RSum(values), n)
        sqdev(x) == RMul(RSub(x, mean_val), RSub(x, mean_val))
    IN  IF n = 0 THEN [mean |-> Zero, stddev |-> StdZero]
        ELSE [mean |-> mean_val,
              stddev |-> IF n > 1 THEN Sqrt(RDiv(RSum(Map(sqdev, values)), n))
                         ELSE StdZero]

\* Statistics.calculate_statistics dividing the sum by n - 1 for the mean too
calculate_statistics_mean_off_by_one(values) ==
    LET n == Len(values)
        mean_val == RDiv(RSum(values), IF n > 1 THEN n - 1 ELSE n)
        sqdev(x) == RMul(RSub(x, mean_val), RSub(x, mean_val))
    IN  IF n = 0 THEN [mean |-> Zero, stddev |-> StdZero]
        ELSE [mean |-> mean_val,
              stddev |-> IF n > 1
                         THEN Sqrt(RDiv(RSum(Map(sqdev, values)), n - 1))
                         ELSE StdZero]

\* Statistics.calculate_statistics(values), values a list of numbers
calculate_statistics(values) ==
    LET n == Len(values)
        mean_val == RDiv(RSum(values), n)
        sqdev(x) == RMul(RSub(x, mean_val), RSub(x, mean_val))
    IN  IF n = 0 THEN [mean |-> Zero, stddev |-> StdZero]
        ELSE [mean |-> mean_val,
              stddev |-> IF n > 1
                         THEN Sqrt(RDiv(RSum(Map(sqdev, values)), n - 1))
                         ELSE StdZero]

\* Statistics.process_experiment_results without its `if not results` guard:
\* results[0] then raises on an empty list
process_experiment_results_unguarded(rs, file_name) ==
    LET tt(r) == r.transfer_time
        tp(r) == r.throughput
        ov(r) == r.overhead_ratio
    IN  IF rs = <<>> THEN [raised |-> "IndexError", value |-> <<>>]
        ELSE [raised |-> "none",
              value |-> << [file_name |-> file_name,
                            file_size_bytes |-> rs[1].file_size,
                            repetitions_completed |-> Len(rs),
                            transfer_time |-> calculate_statistics(Map(tt, rs)),
                            throughput_bps |-> calculate_statistics(Map(tp, rs)),
                            overhead_ratio |-> calculate_statistics(Map(ov, rs)),
                            raw_results |-> rs] >>]

\* Statistics.process_experiment_results(results, file_name).  The value is
\* <<>> for None and <<summary>> for a summary.
process_experiment_results(rs, file_name) ==
    LET tt(r) == r.transfer_time
        tp(r) == r.throughput
        ov(r) == r.overhead_ratio
    IN  IF rs = <<>> THEN [raised |-> "none", value |-> <<>>]
        ELSE [raised |-> "none",
              value |-> << [file_name |-> file_name,
                            file_size_bytes |-> rs[1].file_size,
                            repetitions_completed |-> Len(rs),
                            transfer_time |-> calculate_statistics(Map(tt, rs)),
                            throughput_bps |-> calculate_statistics(Map(tp, rs)),
                            overhead_ratio |-> calculate_statistics(Map(ov, rs)),
                            raw_results |-> rs] >>]

\* the sample records a collector returns, one per value of its transfer time
Sample(i) ==
    [transfer_time |-> RatOfInt(i),
     throughput |-> RatOfInt((i + 1) % (MaxVal + 1)),
     overhead_ratio |-> RatOfInt((i + 2) % (MaxVal + 1)),
     file_size |-> 10240]

Samples == {Sample(i) : i \in 0..MaxVal}

SampleSeqs == UNION {[1..n -> Samples] : n \in 0..MaxN}

TransferTimes(rs) == [i \in 1..Len(rs) |-> rs[i].transfer_time]

\* the analysis pipeline before it has started
AnalyzeIdle ==
    /\ result_files = <<>>
    /\ file_idx = 0
    /\ protocol_files = <<>>
    /\ proto_idx = 0
    /\ all_file_sizes = {}
    /\ merged_data = EmptyDict
    /\ size_results = EmptyDict
    /\ protocol_data = <<>>
    /\ workbook = <<>>
    /\ disk = <<>>

\* neither the seeder nor a BitTorrent client is running
SwarmIdle ==
    /\ FINISHED_CLIENTS = <<>>
    /\ LOGGED = FALSE
    /\ seeder_pc = "idle"
    /\ log_file = <<>>
    /\ torrents = 0
    /\ client_pc = <<>>
    /\ client_run = <<>>
    /\ history = <<>>

\* no HTTP client is running
HttpIdle ==
    /\ client = "none"
    /\ responses = <<>>
    /\ exp_idx = 0
    /\ attempts = <<>>
    /\ results_data = <<>>

\* the HTTP/2 server is not running
ServerIdle ==
    /\ server_files = {}
    /\ requests = <<>>
    /\ sent = <<>>

\* no program that talks over the network is running
NetIdle == SwarmIdle /\ HttpIdle /\ ServerIdle

StatsInit ==
    /\ pc = "aggregate"
    /\ raised = "none"
    /\ results \in SampleSeqs
    /\ summary = <<>>
    /\ stats = <<>>
    /\ AnalyzeIdle
    /\ NetIdle

\* a client's run_experiment hands its samples to the aggregator
ProcessExperimentResults ==
    /\ pc = "aggregate"
    /\ LET out == process_experiment_results(results, Prefixed("A", L10kB))
       IN  /\ summary' = out.value
           /\ raised' = out.raised
           /\ pc' = IF out.raised = "none" THEN "aggregated" ELSE "raised"
    /\ UNCHANGED <<results, stats>>
    /\ UNCHANGED <<analyze_vars, net_vars>>

\* a direct call of calculate_statistics on the transfer times
CalculateStatistics ==
    /\ pc = "aggregate"
    /\ stats' = <<calculate_statistics(TransferTimes(results))>>
    /\ pc' = "calculated"
    /\ UNCHANGED <<raised, results, summary>>
    /\ UNCHANGED <<analyze_vars, net_vars>>

StatsNext == ProcessExperimentResults \/ CalculateStatistics

SpecStats == StatsInit /\ [][StatsNext]_vars

(***************************************************************************)
(* src/analyze.py: dictionaries                                            *)
(*                                                                         *)
(* A dictionary whose iteration order the code relies on is a sequence of  *)
(* [key, val] items in insertion order; one that is only looked up is a    *)
(* function.                                                               *)
(***************************************************************************)
\* d[k] = v on a function
DictPut(d, k, v) == [x \in DOMAIN d \cup {k} |-> IF x = k THEN v ELSE d[x]]

\* result.keys() of an ordered dictionary
Keys(items) == {items[i].key : i \in 1..Len(items)}

\* result[key] of an ordered dictionary that holds key
Get(items, key) ==
    items[CHOOSE i \in 1..Len(items) : items[i].key = key].val

\* results[file_size] = v of an ordered dictionary
Put(items, key, v) ==
    IF key \in Keys(items)
    THEN [i \in 1..Len(items) |->
            IF items[i].key = key THEN [key |-> key, val |-> v] ELSE items[i]]
    ELSE Append(items, [key |-> key, val |-> v])

(***************************************************************************)
(* src/analyze.py: parse_results                                           *)
(*                                                                         *)
(* A result document is [json_ok, protocol, files]: json_ok is whether     *)
(* json.load succeeds, protocol is <<>> or <<name>>, files is the ordered  *)
(* dictionary of its "files" object.                                       *)
(***************************************************************************)
\* the loop of lines 21-26: the entries read so far, or a KeyError
RECURSIVE parse_entries(_, _)
parse_entries(files, acc) ==
    IF files = <<>> THEN [raised |-> "none", value |-> acc]
    ELSE LET file_size == Head(files).key
             file_data == Head(files).val
         IN  IF {"transfer_time", "throughput_bps", "overhead_ratio"}
                    \subseteq DOMAIN file_data
             THEN parse_entries(Tail(files),
                      Put(acc, file_size,
                          [transfer_time |-> file_data["transfer_time"],
                           throughput |-> file_data["throughput_bps"],
                           overhead_ratio |-> file_data["overhead_ratio"]]))
             ELSE [raised |-> "KeyError", value |-> <<>>]

\* parse_results(filepath): the pair (results, protocol); the file_prefix it
\* also returns is not used by main
parse_results(doc) ==
    LET protocol == IF doc.protocol = <<>> THEN "Unknown" ELSE doc.protocol[1]
        entries == parse_entries(doc.files, <<>>)
    IN  IF doc.json_ok /\ entries.raised = "none"
        THEN [results |-> entries.value, protocol |-> protocol]
        ELSE [results |-> <<>>, protocol |-> "Unknown"]

(***************************************************************************)
(* src/analyze.py: merge_protocol_results                                  *)
(***************************************************************************)
Metrics == <<"transfer_time", "throughput", "overhead_ratio">>

CanonicalSizes == {L10kB, L100kB, L1MB, L10MB}

\* lines 55-60 with the labels of the two largest sizes exchanged
base_size_conversion_swapped ==
    [k \in {R10240, R102400, R1048576, R10485760} |->
        CASE k = R10240 -> L10kB
          [] k = R102400 -> L100kB
          [] k = R1048576 -> L10MB
          [] k = R10485760 -> L1MB]

\* lines 55-60
base_size_conversion ==
    [k \in {R10240, R102400, R1048576, R10485760} |->
        CASE k = R10240 -> L10kB
          [] k = R102400 -> L100kB
          [] k = R1048576 -> L1MB
          [] k = R10485760 -> L10MB]

\* lines 49-67: the label of a key, or the KeyError of the conversion lookup
NormalizeSize(file_name) ==
    LET base_size == IF HasUnderscore(file_name) THEN SplitField1(file_name)
                     ELSE file_name
    IN  IF base_size \in CanonicalSizes
        THEN [raised |-> "none", value |-> base_size]
        ELSE IF base_size \in DOMAIN base_size_conversion
             THEN [raised |-> "none", value |-> base_size_conversion[base_size]]
             ELSE [raised |-> "KeyError", value |-> base_size]

\* lines 77-80: the value of the first key of result that holds base_size
RECURSIVE FirstContaining(_, _)
FirstContaining(result, base_size) ==
    IF result = <<>> THEN <<>>
    ELSE IF Contains(base_size, Head(result).key) THEN <<Head(result).val>>
         ELSE FirstContaining(Tail(result), base_size)

\* lines 70-80 without the search for another key of the same size
RECURSIVE CollectSizeResults_exact_only(_, _, _)
CollectSizeResults_exact_only(file_results, file_name, base_size) ==
    IF file_results = <<>> THEN <<>>
    ELSE LET result == Head(file_results)
             found == IF file_name \in Keys(result)
                      THEN <<Get(result, file_name)>>
                      ELSE <<>>
         IN  found \o CollectSizeResults_exact_only(Tail(file_results),
                                                    file_name, base_size)

\* lines 70-80: the summaries collected for file_name over all result files
RECURSIVE CollectSizeResults(_, _, _)
CollectSizeResults(file_results, file_name, base_size) ==
    IF file_results = <<>> THEN <<>>
    ELSE LET result == Head(file_results)
             found == IF file_name \in Keys(result)
                      THEN <<Get(result, file_name)>>
                      ELSE FirstContaining(result, base_size)
         IN  found \o CollectSizeResults(Tail(file_results), file_name, base_size)

\* sum(s**2 for s in stddevs)
RECURSIVE SumSquares(_)
SumSquares(stddevs) ==
    IF stddevs = <<>> THEN Zero
    ELSE RAdd(Square(Head(stddevs)), SumSquares(Tail(stddevs)))

\* line 91: the means that are not 0
NonzeroMeans(rs, metric) ==
    LET mean_of(r) == r[metric].mean
        nonzero(m) == m # Zero
    IN  Filter(nonzero, Map(mean_of, rs))

\* line 92: the standard deviations that are not 0
NonzeroStddevs(rs, metric) ==
    LET stddev_of(r) == r[metric].stddev
        nonzero(sd) == sd # StdZero
    IN  Filter(nonzero, Map(stddev_of, rs))

\* any(s > 0 for s in stddevs)
AnyPositive(stddevs) ==
    \E i \in 1..Len(stddevs) : RLess(Zero, Square(stddevs[i]))

\* the integer k of a standard deviation StdOfInt(k)
RootOfInt(sd) == CHOOSE k \in 0..Square(sd).n : k * k = Square(sd).n

\* lines 99-103 with s in place of s**2
CombinedStddev_unsquared(stddevs) ==
    LET value(sd) == RatOfInt(RootOfInt(sd))
    IN  IF stddevs # <<>> /\ AnyPositive(stddevs)
        THEN Sqrt(RDiv(RSum(Map(value, stddevs)), Len(stddevs)))
        ELSE StdZero

\* lines 99-103: the combined standard deviation
CombinedStddev(stddevs) ==
    IF stddevs # <<>> /\ AnyPositive(stddevs)
    THEN Sqrt(RDiv(SumSquares(stddevs), Len(stddevs)))
    ELSE StdZero

\* lines 91-110 averaging the means over all collected summaries
MergeMetric_mean_over_all(rs, metric) ==
    LET means == NonzeroMeans(rs, metric)
        stddevs == NonzeroStddevs(rs, metric)
    IN  IF means # <<>>
        THEN [mean |-> RDiv(RSum(means), Len(rs)),
              stddev |-> CombinedStddev(stddevs)]
        ELSE [mean |-> Zero, stddev |-> StdZero]

\* lines 91-110 taking the mean square over all collected summaries
MergeMetric_rms_over_all(rs, metric) ==
    LET means == NonzeroMeans(rs, metric)
        stddevs == NonzeroStddevs(rs, metric)
    IN  IF means # <<>>
        THEN [mean |-> RDiv(RSum(means), Len(means)),
              stddev |-> IF stddevs # <<>> /\ AnyPositive(stddevs)
                         THEN Sqrt(RDiv(SumSquares(stddevs), Len(rs)))
                         ELSE StdZero]
        ELSE [mean |-> Zero, stddev |-> StdZero]

\* lines 91-110 taking the mean square over the n of the averaged means
MergeMetric_rms_over_means(rs, metric) ==
    LET means == NonzeroMeans(rs, metric)
        stddevs == NonzeroStddevs(rs, metric)
    IN  IF means # <<>>
        THEN [mean |-> RDiv(RSum(means), Len(means)),
              stddev |-> IF stddevs # <<>> /\ AnyPositive(stddevs)
                         THEN Sqrt(RDiv(SumSquares(stddevs), Len(means)))
                         ELSE StdZero]
        ELSE [mean |-> Zero, stddev |-> StdZero]

\* lines 91-110 combining the standard deviations also when no mean is left
MergeMetric_no_absence(rs, metric) ==
    LET means == NonzeroMeans(rs, metric)
        stddevs == NonzeroStddevs(rs, metric)
    IN  IF means # <<>>
        THEN [mean |-> RDiv(RSum(means), Len(means)),
              stddev |-> CombinedStddev(stddevs)]
        ELSE [mean |-> Zero, stddev |-> CombinedStddev(stddevs)]

\* lines 91-110 for one metric: the merged {mean, stddev}
MergeMetric(rs, metric) ==
    LET means == NonzeroMeans(rs, metric)
        stddevs == NonzeroStddevs(rs, metric)
    IN  IF means # <<>>
        THEN [mean |-> RDiv(RSum(means), Len(means)),
              stddev |-> CombinedStddev(stddevs)]
        ELSE [mean |-> Zero, stddev |-> StdZero]

\* lines 86-110: the merged cell of one size label
MergeCell(rs) ==
    [m \in {Metrics[i] : i \in 1..Len(Metrics)} |-> MergeMetric(rs, m)]

\* lines 43-45: the keys of all result files
AllFileSizes(file_results) ==
    UNION {Keys(file_results[i]) : i \in 1..Len(file_results)}

\* lines 91-92: r[metric]['mean'] and r[metric]['stddev'] are read for every
\* collected summary; a metric object without one of them is a KeyError
HasStatistics(rs) ==
    \A i \in 1..Len(rs) : \A m \in 1..Len(Metrics) :
        {"mean", "stddev"} \subseteq DOMAIN rs[i][Metrics[m]]

(***************************************************************************)
(* src/analyze.py: create_excel                                            *)
(***************************************************************************)
size_order == [k \in CanonicalSizes |->
                 CASE k = L10kB -> 0 [] k = L100kB -> 1
                   [] k = L1MB -> 2 [] k = L10MB -> 3]

\* size_order.get(x, 99)
SizeRank(x) == IF x \in DOMAIN size_order THEN size_order[x] ELSE 99

\* sorted(list(file_sizes)) without the key: the order of the strings
RECURSIVE SortSizes_plain(_)
SortSizes_plain(sizes) ==
    LET plain == <<L100kB, L10MB, L10kB, L1MB>>
        at(x) == IF \E i \in 1..Len(plain) : plain[i] = x
                 THEN CHOOSE i \in 1..Len(plain) : plain[i] = x
                 ELSE 99
    IN  IF sizes = {} THEN <<>>
        ELSE LET first == CHOOSE x \in sizes :
                              \A y \in sizes : at(x) <= at(y)
             IN  <<first>> \o SortSizes_plain(sizes \ {first})

\* sorted(list(file_sizes), key=...): an ordering of the set by rank
RECURSIVE SortSizes(_)
SortSizes(sizes) ==
    IF sizes = {} THEN <<>>
    ELSE LET first == CHOOSE x \in sizes :
                          \A y \in sizes : SizeRank(x) <= SizeRank(y)
         IN  <<first>> \o SortSizes(sizes \ {first})

\* lines 120-122: (protocol, 'Mean'), (protocol, 'Std Dev') per protocol
RECURSIVE ColumnTuples(_)
ColumnTuples(protocols) ==
    IF protocols = <<>> THEN <<>>
    ELSE << <<Head(protocols), "Mean">>, <<Head(protocols), "Std Dev">> >>
         \o ColumnTuples(Tail(protocols))

\* a row that writes 0 where a protocol has no entry for the size
RECURSIVE SheetRow_zero_fill(_, _, _)
SheetRow_zero_fill(pdata, file_size, metric) ==
    IF pdata = <<>> THEN <<>>
    ELSE LET data == Head(pdata).val
         IN  (IF file_size \in DOMAIN data
              THEN << <<data[file_size][metric].mean>>,
                      <<data[file_size][metric].stddev>> >>
              ELSE << <<Zero>>, <<StdZero>> >>)
             \o SheetRow_zero_fill(Tail(pdata), file_size, metric)

\* lines 142-151: one row of a metric; a cell is <<value>>, or <<>> for None
RECURSIVE SheetRow(_, _, _)
SheetRow(pdata, file_size, metric) ==
    IF pdata = <<>> THEN <<>>
    ELSE LET data == Head(pdata).val
         IN  (IF file_size \in DOMAIN data
              THEN << <<data[file_size][metric].mean>>,
                      <<data[file_size][metric].stddev>> >>
              ELSE << <<>>, <<>> >>)
             \o SheetRow(Tail(pdata), file_size, metric)

\* every sheet filled from the transfer time
Sheet_transfer_time_only(pdata, file_sizes, metric) ==
    [index |-> file_sizes,
     columns |-> ColumnTuples([i \in 1..Len(pdata) |-> pdata[i].key]),
     data |-> [i \in 1..Len(file_sizes) |->
                 SheetRow(pdata, file_sizes[i], "transfer_time")]]

\* lines 178-187: the data frame written as one sheet
Sheet(pdata, file_sizes, metric) ==
    [index |-> file_sizes,
     columns |-> ColumnTuples([i \in 1..Len(pdata) |-> pdata[i].key]),
     data |-> [i \in 1..Len(file_sizes) |-> SheetRow(pdata, file_sizes[i], metric)]]

SheetNames == <<"Transfer Time (s)", "Throughput (bps)", "Overhead Ratio">>

\* a report whose rows are the sizes of the first protocol only
create_excel_first_protocol_sizes(pdata) ==
    IF pdata = <<>>
    THEN [raised |-> "TypeError", value |-> <<>>]
    ELSE [raised |-> "none",
          value |-> [i \in 1..3 |->
                       [key |-> SheetNames[i],
                        val |-> Sheet(pdata, SortSizes(DOMAIN pdata[1].val),
                                      Metrics[i])]]]

\* create_excel(protocol_data): the sheets of the workbook in the order
\* written.  pd.MultiIndex.from_tuples raises TypeError on an empty list.
create_excel(pdata) ==
    LET file_sizes ==
            SortSizes(UNION {DOMAIN pdata[i].val : i \in 1..Len(pdata)})
    IN  IF pdata = <<>>
        THEN [raised |-> "TypeError", value |-> <<>>]
        ELSE [raised |-> "none",
              value |-> [i \in 1..3 |->
                           [key |-> SheetNames[i],
                            val |-> Sheet(pdata, file_sizes, Metrics[i])]]]

(***************************************************************************)
(* src/utils.py: ResultsManager.save_results and src/analyze.py: the glob  *)
(* of main.  A file on disk is [dir, name, doc]: the directories from the  *)
(* current directory down to the file, the parts of its name, its content. *)
(***************************************************************************)
\* protocol.replace('/', '')
StripSlash ==
    [protocol \in {"HTTP/1.1", "HTTP/2", "BitTorrent"} |->
        CASE protocol = "HTTP/1.1" -> "HTTP1.1"
          [] protocol = "HTTP/2" -> "HTTP2"
          [] OTHER -> protocol]

\* f"results_{file_prefix}_from_{server}_{protocol.replace('/', '')}.json"
ResultFileName(file_prefix, server, protocol) ==
    <<"results_", file_prefix, "_from_", server, "_", StripSlash[protocol],
      ".json">>

\* the pattern of line 248 after the directory part
ResultPattern == <<"results_", "*", "_from_", "*", "_", "*", ".json">>

\* fnmatch: "*" stands for any run of parts, every other part for itself
RECURSIVE FnMatch(_, _)
FnMatch(pattern, name) ==
    IF pattern = <<>> THEN name = <<>>
    ELSE IF Head(pattern) = "*"
    THEN \/ FnMatch(Tail(pattern), name)
         \/ name # <<>> /\ FnMatch(pattern, Tail(name))
    ELSE /\ name # <<>>
         /\ Head(name) = Head(pattern)
         /\ FnMatch(Tail(pattern), Tail(name))

\* a name glob's wildcards do not match
Hidden(dir_name) == dir_name[1] = "."

\* line 248: glob.glob("**/results_*_from_*_*.json") is called without
\* recursive=True, so "**" stands for exactly one directory
GlobMatches(file) ==
    /\ Len(file.dir) = 1
    /\ ~Hidden(file.dir[1])
    /\ FnMatch(ResultPattern, file.name)

\* the documents of the files glob.glob returns, in the order of the listing
RECURSIVE Glob(_)
Glob(files) ==
    IF files = <<>> THEN <<>>
    ELSE (IF GlobMatches(Head(files)) THEN <<Head(files).doc>> ELSE <<>>)
         \o Glob(Tail(files))

(***************************************************************************)
(* Result documents the model runs the pipeline on.                        *)
(***************************************************************************)
\* {mean, stddev} pairs as result files hold them
StatTable ==
    << [mean |-> RatOfInt(0), stddev |-> StdOfInt(0)],
       [mean |-> RatOfInt(1), stddev |-> StdOfInt(2)],
       [mean |-> RatOfInt(3), stddev |-> StdOfInt(4)],
       [mean |-> RatOfInt(1), stddev |-> StdOfInt(0)],
       [mean |-> RatOfInt(0), stddev |-> StdOfInt(2)],
       [mean |-> RatOfInt(2), stddev |-> StdOfInt(4)],
       [mean |-> RatOfInt(3), stddev |-> StdOfInt(0)],
       [mean |-> RatOfInt(0), stddev |-> StdOfInt(4)] >>

StatOf(j) == StatTable[(j % Len(StatTable)) + 1]

\* an entry of a document's "files" object
Entry(i) ==
    [transfer_time |-> StatOf(i),
     throughput_bps |-> StatOf(i + 1),
     overhead_ratio |-> StatOf(i + 2)]

Entries == {Entry(i) : i \in 0..MaxEntry}

Doc(protocol, key, entry) ==
    [json_ok |-> TRUE, protocol |-> <<protocol>>,
     files |-> <<[key |-> key, val |-> entry]>>]

\* a file json.load rejects
MalformedDoc == [json_ok |-> FALSE, protocol |-> <<>>, files |-> <<>>]

Sizes == {L10kB, L100kB, L1MB, L10MB,
          R10240, R102400, R1048576, R10485760, R999999}

\* every size, bare and after a prefix
AllKeys == Sizes \cup {Prefixed("A", z) : z \in Sizes}

\* one protocol, files with one entry each
MergeDocs ==
    {Doc("HTTP/1.1", k, e) :
        k \in {Prefixed("A", L10kB), Prefixed("B", L10kB), Prefixed("A", L1MB)},
        e \in Entries}

\* one file, one entry under any key
KeyDocs == {Doc("HTTP/1.1", k, e) : k \in AllKeys, e \in Entries}

\* the keys of files that hold several entries: one label under a prefix and
\* as a raw byte count, and a size that is not recognized
MixedKeys == {Prefixed("A", L10kB), R10240, R999999}

\* the orders in which a file can hold up to MaxKeys different keys
KeyLists ==
    {ks \in UNION {[1..n -> MixedKeys] : n \in 1..MaxKeys} :
        \A a, b \in 1..Len(ks) : a # b => ks[a] # ks[b]}

\* the file at position j holding the keys ks, each with its own entry
MixedDoc(j, ks) ==
    [json_ok |-> TRUE, protocol |-> <<"HTTP/1.1">>,
     files |-> [q \in 1..Len(ks) |->
                  [key |-> ks[q], val |-> Entry(MaxKeys * (j - 1) + q)]]]

\* one protocol, files with several entries
MixedRuns ==
    UNION {{[j \in 1..n |-> MixedDoc(j, kss[j])] : kss \in [1..n -> KeyLists]} :
              n \in 1..MaxFiles}

\* a file whose entry has no "transfer_time" object: src/http2/client.py
\* writes the statistics under "transfer_time_seconds"
MissingMetricDoc ==
    [json_ok |-> TRUE, protocol |-> <<"HTTP/2">>,
     files |-> <<[key |-> Prefixed("A", L10kB),
                  val |-> [transfer_time_seconds |-> StatOf(1),
                           throughput_bps |-> StatOf(2),
                           overhead_ratio |-> StatOf(3)]]>>]

\* a file whose "transfer_time" object has no "mean"
MissingMeanDoc ==
    [json_ok |-> TRUE, protocol |-> <<"HTTP/1.1">>,
     files |-> <<[key |-> Prefixed("A", L10kB),
                  val |-> [transfer_time |-> [stddev |-> StdOfInt(2)],
                           throughput_bps |-> StatOf(2),
                           overhead_ratio |-> StatOf(3)]]>>]

\* two protocols and the files that are not well formed
PipelineDocs ==
    {Doc(p, k, e) : p \in {"HTTP/1.1", "HTTP/2"},
                    k \in {Prefixed("A", L10kB), Prefixed("B", L10kB)},
                    e \in Entries}
    \cup {MalformedDoc, MissingMetricDoc, MissingMeanDoc}

\* the entries of the files the report is built from: one with the pair
\* {mean 0, stddev 0} for the transfer time, one without zeros there
ReportEntries == {Entry(0), Entry(1)}

\* the orders in which a file holds the four sizes
SizeOrders == {<<L10kB, L100kB, L1MB, L10MB>>, <<L10MB, L1MB, L100kB, L10kB>>}

\* a file with an entry for each of the four sizes, as run_experiments of
\* the clients writes it
FullDoc(protocol, order) ==
    [json_ok |-> TRUE, protocol |-> <<protocol>>,
     files |-> [q \in 1..Len(order) |->
                  [key |-> Prefixed("A", order[q]), val |-> Entry(q)]]]

\* two protocols, files for one size or for all four, and a malformed file
ReportDocs ==
    {Doc(p, Prefixed("A", z), e) : p \in {"HTTP/1.1", "BitTorrent"},
                                   z \in CanonicalSizes,
                                   e \in ReportEntries}
    \cup {FullDoc(p, order) : p \in {"HTTP/1.1", "BitTorrent"},
                              order \in SizeOrders}
    \cup {MalformedDoc}

StatsIdle ==
    /\ results = <<>>
    /\ summary = <<>>
    /\ stats = <<>>

Digits == <<"0", "1", "2", "3", "4", "5", "6", "7", "8", "9">>

\* the documents as result files, each in a directory of its own below the
\* current directory
OnDisk(docs) ==
    [j \in 1..Len(docs) |->
        [dir |-> << <<"d", Digits[j + 1]>> >>,
         name |-> ResultFileName("A", "h", "HTTP/1.1"),
         doc |-> docs[j]]]

\* main() starts with the files glob.glob found
AnalyzeStart(docs) ==
    /\ pc = "parse"
    /\ raised = "none"
    /\ StatsIdle
    /\ NetIdle
    /\ disk = OnDisk(docs)
    /\ result_files = docs
    /\ file_idx = 0
    /\ protocol_files = <<>>
    /\ proto_idx = 0
    /\ all_file_sizes = {}
    /\ merged_data = EmptyDict
    /\ size_results = EmptyDict
    /\ protocol_data = <<>>
    /\ workbook = <<>>

MergeInit ==
    \E docs \in UNION {[1..n -> MergeDocs] : n \in 1..MaxFiles}
                \cup {<<d>> : d \in KeyDocs}
                \cup MixedRuns :
        AnalyzeStart(docs)

PipelineInit ==
    \E docs \in UNION {[1..n -> PipelineDocs] : n \in 0..MaxFiles} :
        AnalyzeStart(docs)

ReportInit ==
    \E docs \in UNION {[1..n -> ReportDocs] : n \in 0..MaxFiles} :
        AnalyzeStart(docs)

\* the directories a file can be in: the current directory, one and two
\* levels below it, and a hidden directory
DiskDirs == {<<>>, << <<"a">> >>, << <<"a">>, <<"b">> >>, << <<".", "h">> >>}

\* a result file name, and the name of the seeder's metrics file
DiskNames == {ResultFileName("A", "h", "HTTP/1.1"), <<"seeder_metrics", ".json">>}

DiskDocs == {Doc("HTTP/1.1", Prefixed("A", L10kB), Entry(1)),
             Doc("HTTP/2", Prefixed("A", L1MB), Entry(2))}

DiskFiles == {[dir |-> d, name |-> n, doc |-> c] :
                 d \in DiskDirs, n \in DiskNames, c \in DiskDocs}

\* main() is about to look for result files among up to MaxFiles files with
\* different paths
DiscoverInit ==
    /\ pc = "glob"
    /\ raised = "none"
    /\ StatsIdle
    /\ NetIdle
    /\ disk \in {fs \in UNION {[1..n -> DiskFiles] : n \in 0..MaxFiles} :
                    \A a, b \in 1..Len(fs) :
                        a # b => <<fs[a].dir, fs[a].name>> # <<fs[b].dir, fs[b].name>>}
    /\ result_files = <<>>
    /\ file_idx = 0
    /\ protocol_files = <<>>
    /\ proto_idx = 0
    /\ all_file_sizes = {}
    /\ merged_data = EmptyDict
    /\ size_results = EmptyDict
    /\ protocol_data = <<>>
    /\ workbook = <<>>

(***************************************************************************)
(* src/analyze.py: main                                                    *)
(***************************************************************************)
\* line 248: result_files = glob.glob(...)
Discover ==
    /\ pc = "glob"
    /\ result_files' = Glob(disk)
    /\ pc' = "parse"
    /\ UNCHANGED <<raised, file_idx, protocol_files, proto_idx,
                   all_file_sizes, merged_data, size_results, protocol_data,
                   workbook>>
    /\ UNCHANGED <<stats_vars, disk, net_vars>>

\* lines 257-263: one iteration of the loop over result_files
ParseFile ==
    /\ pc = "parse"
    /\ file_idx < Len(result_files)
    /\ LET parsed == parse_results(result_files[file_idx + 1])
           protocol == parsed.protocol
           before == IF protocol \in Keys(protocol_files)
                     THEN Get(protocol_files, protocol) ELSE <<>>
       IN  protocol_files' =
               Put(protocol_files, protocol, Append(before, parsed.results))
    /\ file_idx' = file_idx + 1
    /\ UNCHANGED <<pc, raised, result_files, proto_idx, all_file_sizes,
                   merged_data, size_results, protocol_data, workbook>>
    /\ UNCHANGED <<stats_vars, disk, net_vars>>

\* the loop over result_files ends
ParseDone ==
    /\ pc = "parse"
    /\ file_idx = Len(result_files)
    /\ pc' = "merge"
    /\ UNCHANGED <<raised, result_files, file_idx, protocol_files, proto_idx,
                   all_file_sizes, merged_data, size_results, protocol_data,
                   workbook>>
    /\ UNCHANGED <<stats_vars, disk, net_vars>>

\* lines 270-272 and 34-45: merge_protocol_results is entered for the next
\* protocol
MergeBegin ==
    /\ pc = "merge"
    /\ proto_idx < Len(protocol_files)
    /\ LET file_results == protocol_files[proto_idx + 1].val
       IN  all_file_sizes' = AllFileSizes(file_results)
    /\ merged_data' = EmptyDict
    /\ size_results' = EmptyDict
    /\ pc' = "merge_loop"
    /\ UNCHANGED <<raised, result_files, file_idx, protocol_files, proto_idx,
                   protocol_data, workbook>>
    /\ UNCHANGED <<stats_vars, disk, net_vars>>

\* lines 48-110: one iteration of the loop over all_file_sizes, a set, in
\* whatever order the set yields its elements
MergeKey ==
    /\ pc = "merge_loop"
    /\ \E file_name \in all_file_sizes :
        LET file_results == protocol_files[proto_idx + 1].val
            norm == NormalizeSize(file_name)
            base_size == norm.value
            rs == CollectSizeResults(file_results, file_name, base_size)
        IN  /\ all_file_sizes' = all_file_sizes \ {file_name}
            /\ IF norm.raised # "none"
               THEN /\ raised' = norm.raised
                    /\ pc' = "raised"
                    /\ UNCHANGED <<merged_data, size_results>>
               ELSE IF ~HasStatistics(rs)
               THEN /\ raised' = "KeyError"
                    /\ pc' = "raised"
                    /\ UNCHANGED <<merged_data, size_results>>
               ELSE /\ merged_data' =
                        IF rs = <<>> THEN merged_data
                        ELSE DictPut(merged_data, base_size, MergeCell(rs))
                    /\ size_results' =
                        IF rs = <<>> THEN size_results
                        ELSE DictPut(size_results, base_size, rs)
                    /\ UNCHANGED <<pc, raised>>
    /\ UNCHANGED <<result_files, file_idx, protocol_files, proto_idx,
                   protocol_data, workbook>>
    /\ UNCHANGED <<stats_vars, disk, net_vars>>

\* line 112 and line 272: merge_protocol_results returns merged_data
MergeReturn ==
    /\ pc = "merge_loop"
    /\ all_file_sizes = {}
    /\ protocol_data' =
           Append(protocol_data, [key |-> protocol_files[proto_idx + 1].key,
                                  val |-> merged_data])
    /\ proto_idx' = proto_idx + 1
    /\ pc' = "merge"
    /\ UNCHANGED <<raised, result_files, file_idx, protocol_files,
                   all_file_sizes, merged_data, size_results, workbook>>
    /\ UNCHANGED <<stats_vars, disk, net_vars>>

\* line 275: create_excel(protocol_data)
CreateExcel ==
    /\ pc = "merge"
    /\ proto_idx = Len(protocol_files)
    /\ LET out == create_excel(protocol_data)
       IN  /\ workbook' = out.value
           /\ raised' = out.raised
           /\ pc' = IF out.raised = "none" THEN "done" ELSE "raised"
    /\ UNCHANGED <<result_files, file_idx, protocol_files, proto_idx,
                   all_file_sizes, merged_data, size_results, protocol_data>>
    /\ UNCHANGED <<stats_vars, disk, net_vars>>

AnalyzeNext ==
    \/ ParseFile
    \/ ParseDone
    \/ MergeBegin
    \/ MergeKey
    \/ MergeReturn
    \/ CreateExcel

\* merging the result files of one protocol
SpecMerge == MergeInit /\ [][AnalyzeNext]_vars

\* the whole run over files of several protocols
SpecPipeline == PipelineInit /\ [][AnalyzeNext]_vars

\* the whole run over files that cover several sizes
SpecReport == ReportInit /\ [][AnalyzeNext]_vars

DiscoverNext ==
    \/ Discover
    \/ AnalyzeNext

\* the whole run from the search for result files on
SpecDiscover == DiscoverInit /\ [][DiscoverNext]_vars

(***************************************************************************)
(* The HTTP clients: src/http1.1/client.py, src/http2/client.py and        *)
(* src/http1_client.py.                                                    *)
(*                                                                         *)
(* What the server does at one attempt is, for HTTP/1.1, a record          *)
(* [failed, content_length, body, head, elapsed]: requests.get or          *)
(* raise_for_status raises, the Content-Length header (<<>> if there is    *)
(* none), the bytes of the body, the bytes of the dumped headers, and the  *)
(* time the request took.  For HTTP/2 it is [connected, events, elapsed]:  *)
(* events are what socket.recv and h2 deliver, in order.                   *)
(***************************************************************************)
\* number of repetitions of the first experiment
MaxReps == 2

\* the experiments of a run: a size and its repetitions
Experiments ==
    <<[size |-> L10kB, repetitions |-> MaxReps],
      [size |-> L1MB, repetitions |-> 1]>>

\* HTTP11Client.download_file: <<>> for None, else <<sample>>
HTTP11Client_download_file(response) ==
    IF response.failed THEN <<>>
    ELSE LET transfer_time == response.elapsed
             total_app_data == response.head + response.body
             file_size == IF response.content_length = <<>> THEN 0
                          ELSE response.content_length[1]
         IN  << [transfer_time |-> RatOfInt(transfer_time),
                 throughput |-> IF transfer_time > 0
                                THEN Rat(file_size * 8, transfer_time)
                                ELSE Zero,
                 file_size |-> file_size,
                 total_app_data |-> total_app_data,
                 overhead_ratio |-> IF file_size > 0
                                    THEN Rat(total_app_data, file_size)
                                    ELSE Zero,
                 header_size |-> total_app_data - file_size] >>

\* download_file of src/http1_client.py: a missing header and a division by
\* zero raise inside the try block, and None is returned
http1_client_download_file(response) ==
    IF \/ response.failed
       \/ response.content_length = <<>>
       \/ response.elapsed = 0
       \/ response.content_length[1] = 0
    THEN <<>>
    ELSE LET transfer_time == response.elapsed
             total_app_data == response.head + response.body
             file_size == response.content_length[1]
         IN  << [transfer_time |-> RatOfInt(transfer_time),
                 throughput |-> Rat(file_size, transfer_time),
                 file_size |-> file_size,
                 total_app_data |-> total_app_data,
                 overhead_ratio |-> Rat(total_app_data, file_size),
                 header_size |-> total_app_data - file_size] >>

\* lines 100-128 of HTTP2Client.download_file: the loop over what arrives.
\* The value is [raised, header_data_size, received_data].
RECURSIVE ReceiveResponse(_, _, _)
ReceiveResponse(events, header_data_size, received_data) ==
    IF events = <<>>
    THEN [raised |-> TRUE, header_data_size |-> header_data_size,
          received_data |-> received_data]
    ELSE LET event == Head(events)
         IN  CASE event.kind = "Closed" \/ event.kind = "StreamEnded" ->
                    [raised |-> FALSE, header_data_size |-> header_data_size,
                     received_data |-> received_data]
               [] event.kind = "Error" ->
                    [raised |-> TRUE, header_data_size |-> header_data_size,
                     received_data |-> received_data]
               [] event.kind = "ResponseReceived" ->
                    ReceiveResponse(Tail(events), event.size, received_data)
               [] event.kind = "DataReceived" ->
                    ReceiveResponse(Tail(events), header_data_size,
                                    received_data + event.size)

\* HTTP2Client.download_file: <<>> for None, else <<sample>>
HTTP2Client_download_file(response) ==
    LET received == ReceiveResponse(response.events, 0, 0)
        file_size == received.received_data
        total_application_data == received.header_data_size + file_size + 18
    IN  IF ~response.connected \/ received.raised THEN <<>>
        ELSE << [transfer_time |-> RatOfInt(response.elapsed),
                 file_size |-> file_size,
                 throughput |-> IF response.elapsed > 0
                                THEN Rat(file_size * 8, response.elapsed)
                                ELSE Zero,
                 total_application_data |-> total_application_data,
                 overhead_ratio |-> IF file_size > 0
                                    THEN Rat(total_application_data, file_size)
                                    ELSE Zero] >>

\* the download_file of the client program
download_file(program, response) ==
    CASE program = "http1.1/client.py" -> HTTP11Client_download_file(response)
      [] program = "http2/client.py" -> HTTP2Client_download_file(response)
      [] program = "http1_client.py" -> http1_client_download_file(response)

\* lines 188-222 of HTTP2Client.run_experiment: statistics.mean and
\* statistics.stdev of the samples, stdev only for more than one
HTTP2Client_summary(rs, file_name, repetitions) ==
    LET tt(r) == r.transfer_time
        tp(r) == r.throughput
        ov(r) == r.overhead_ratio
    IN  [file_name |-> file_name,
         file_size_bytes |-> rs[1].file_size,
         repetitions_requested |-> repetitions,
         repetitions_completed |-> Len(rs),
         transfer_time_seconds |-> calculate_statistics(Map(tt, rs)),
         throughput_bps |-> calculate_statistics(Map(tp, rs)),
         overhead_ratio |-> calculate_statistics(Map(ov, rs)),
         raw_results |-> rs]

\* lines 118-147 of run_experiment of src/http1_client.py
http1_client_summary(rs) ==
    LET tt(r) == r.transfer_time
        tp(r) == r.throughput
        ov(r) == r.overhead_ratio
        overhead_stats == calculate_statistics(Map(ov, rs))
    IN  [file_size_bytes |-> rs[1].file_size,
         repetitions_completed |-> Len(rs),
         transfer_time |-> calculate_statistics(Map(tt, rs)),
         throughput_bps |-> calculate_statistics(Map(tp, rs)),
         overhead_ratio |->
             [mean |-> overhead_stats.mean, stddev |-> overhead_stats.stddev,
              description |-> "Total application layer data / file size"],
         raw_results |-> rs]

\* a run_experiment that reports every requested repetition as completed
run_experiment_all_requested(program, rs, file_name, repetitions) ==
    IF rs = <<>> THEN <<>>
    ELSE LET made == CASE program = "http1.1/client.py" ->
                              process_experiment_results(rs, file_name).value[1]
                       [] program = "http2/client.py" ->
                              HTTP2Client_summary(rs, file_name, repetitions)
                       [] program = "http1_client.py" ->
                              http1_client_summary(rs)
         IN  <<[made EXCEPT !.repetitions_completed = repetitions]>>

\* what run_experiment makes of the collected samples: <<>> when there are
\* none, else <<summary>>
run_experiment(program, rs, file_name, repetitions) ==
    IF rs = <<>> THEN <<>>
    ELSE CASE program = "http1.1/client.py" ->
                  process_experiment_results(rs, file_name).value
           [] program = "http2/client.py" ->
                  <<HTTP2Client_summary(rs, file_name, repetitions)>>
           [] program = "http1_client.py" ->
                  <<http1_client_summary(rs)>>

\* the "protocol" a client writes into its document
ProtocolOf ==
    [program \in {"http1.1/client.py", "http2/client.py", "http1_client.py"} |->
        IF program = "http2/client.py" THEN "HTTP/2" ELSE "HTTP/1.1"]

\* where a client writes its document, seen from src/, and under what name
SavedFile(program, doc) ==
    CASE program = "http1.1/client.py" ->
             [dir |-> << <<"h", "t", "t", "p", "1", ".", "1">> >>,
              name |-> ResultFileName("A", "vm1", "HTTP/1.1"), doc |-> doc]
      [] program = "http2/client.py" ->
             [dir |-> << <<"h", "t", "t", "p", "2">> >>,
              name |-> <<"results_", "A", "_from_", "vm1", "_", "http2", ".json">>,
              doc |-> doc]
      [] program = "http1_client.py" ->
             [dir |-> <<>>,
              name |-> <<"results_", "A", "_from_", "vm1", "_", "http1", ".json">>,
              doc |-> doc]

\* what an HTTP/1.1 server can do at one attempt
Http1Responses ==
    {[failed |-> TRUE, content_length |-> <<>>, body |-> 0, head |-> 0,
      elapsed |-> 1],
     [failed |-> FALSE, content_length |-> <<2>>, body |-> 2, head |-> 1,
      elapsed |-> 1],
     [failed |-> FALSE, content_length |-> <<4>>, body |-> 4, head |-> 1,
      elapsed |-> 2],
     [failed |-> FALSE, content_length |-> <<>>, body |-> 2, head |-> 1,
      elapsed |-> 1],
     [failed |-> FALSE, content_length |-> <<0>>, body |-> 0, head |-> 1,
      elapsed |-> 1],
     [failed |-> FALSE, content_length |-> <<2>>, body |-> 2, head |-> 1,
      elapsed |-> 0]}

Event(kind, size) == [kind |-> kind, size |-> size]

\* what an HTTP/2 server can do at one attempt: a full response, an empty
\* body, a connection closed or broken in the middle, and nothing at all
Http2Responses ==
    {[connected |-> TRUE, elapsed |-> 1, events |-> es] :
        es \in {<<Event("ResponseReceived", 1), Event("DataReceived", 2),
                  Event("StreamEnded", 0)>>,
                <<Event("ResponseReceived", 1), Event("DataReceived", 2),
                  Event("DataReceived", 2), Event("StreamEnded", 0)>>,
                <<Event("ResponseReceived", 1), Event("StreamEnded", 0)>>,
                <<Event("ResponseReceived", 1), Event("DataReceived", 2),
                  Event("Closed", 0)>>,
                <<Event("ResponseReceived", 1), Event("DataReceived", 2),
                  Event("Error", 0)>>,
                <<Event("Closed", 0)>>,
                <<>>}}

ResponsesOf(program) ==
    IF program = "http2/client.py" THEN Http2Responses ELSE Http1Responses

\* a client program starts its experiments
ClientInit ==
    /\ pc = "download"
    /\ raised = "none"
    /\ StatsIdle
    /\ AnalyzeIdle
    /\ SwarmIdle
    /\ ServerIdle
    /\ client \in {"http1.1/client.py", "http2/client.py", "http1_client.py"}
    /\ responses \in UNION {
           {rs \in [1..Len(Experiments) -> UNION {[1..n -> ResponsesOf(program)] :
                                                     n \in 1..MaxReps}] :
               \A e \in 1..Len(Experiments) :
                   Len(rs[e]) = Experiments[e].repetitions} :
           program \in {client}}
    /\ exp_idx = 0
    /\ attempts = [e \in 1..Len(Experiments) |-> 0]
    /\ results_data = <<>>

\* one pass of the loop over the repetitions: download_file, and the sample
\* is appended if there is one; src/http1_client.py leaves the loop at the
\* first attempt without one
Download ==
    /\ pc = "download"
    /\ LET e == exp_idx + 1
           i == attempts[e] + 1
           result == download_file(client, responses[e][i])
       IN  /\ results' = IF result # <<>> THEN Append(results, result[1])
                         ELSE results
           /\ attempts' = [attempts EXCEPT ![e] = i]
           /\ pc' = IF \/ i = Experiments[e].repetitions
                       \/ result = <<>> /\ client = "http1_client.py"
                    THEN "summarize" ELSE "download"
    /\ UNCHANGED <<raised, summary, stats, analyze_vars>>
    /\ UNCHANGED <<FINISHED_CLIENTS, LOGGED, seeder_pc, log_file, torrents,
                   client_pc, client_run, history>>
    /\ UNCHANGED <<client, responses, exp_idx, results_data>>
    /\ UNCHANGED <<server_files, requests, sent>>

\* the rest of run_experiment and the caller's loop over the experiments:
\* the summary, if there is one, is stored under the file name
Summarize ==
    /\ pc = "summarize"
    /\ LET e == exp_idx + 1
           file_name == Prefixed("A", Experiments[e].size)
           out == run_experiment(client, results, file_name,
                                 Experiments[e].repetitions)
       IN  /\ summary' = out
           /\ results_data' = IF out # <<>>
                              THEN Put(results_data, file_name, out[1])
                              ELSE results_data
    /\ results' = <<>>
    /\ exp_idx' = exp_idx + 1
    /\ pc' = IF exp_idx + 1 = Len(Experiments) THEN "save" ELSE "download"
    /\ UNCHANGED <<raised, stats, analyze_vars>>
    /\ UNCHANGED <<FINISHED_CLIENTS, LOGGED, seeder_pc, log_file, torrents,
                   client_pc, client_run, history>>
    /\ UNCHANGED <<client, responses, attempts>>
    /\ UNCHANGED <<server_files, requests, sent>>

\* the client writes its document; analyze.py is then run in src/
SaveResults ==
    /\ pc = "save"
    /\ disk' = <<SavedFile(client,
                           [json_ok |-> TRUE,
                            protocol |-> <<ProtocolOf[client]>>,
                            files |-> results_data])>>
    /\ pc' = "glob"
    /\ UNCHANGED <<raised, stats_vars, net_vars>>
    /\ UNCHANGED <<result_files, file_idx, protocol_files, proto_idx,
                   all_file_sizes, merged_data, size_results, protocol_data,
                   workbook>>

ClientNext ==
    \/ Download
    \/ Summarize
    \/ SaveResults
    \/ DiscoverNext

\* a client's run, followed by the report on what it wrote
SpecClient == ClientInit /\ [][ClientNext]_vars

(***************************************************************************)
(* src/http2/server.py: HTTP2Server.handle_request.  A path is the         *)
(* sequence of its characters.                                             *)
(***************************************************************************)
\* number of requests on one connection
MaxRequests == 2

\* s.startswith(prefix)
StartsWith(str, prefix) ==
    /\ Len(prefix) <= Len(str)
    /\ SubSeq(str, 1, Len(prefix)) = prefix

\* s.split('/')
RECURSIVE SplitPath(_)
SplitPath(str) ==
    IF \A i \in 1..Len(str) : str[i] # "/" THEN <<str>>
    ELSE LET i == CHOOSE k \in 1..Len(str) :
                      str[k] = "/" /\ \A j \in 1..(k - 1) : str[j] # "/"
         IN  <<SubSeq(str, 1, i - 1)>> \o SplitPath(SubSeq(str, i + 1, Len(str)))

\* '/'.join(comps)
RECURSIVE JoinPath(_)
JoinPath(comps) ==
    IF comps = <<>> THEN <<>>
    ELSE IF Len(comps) = 1 THEN comps[1]
    ELSE comps[1] \o <<"/">> \o JoinPath(Tail(comps))

\* the loop of posixpath.normpath over the components
RECURSIVE NormComps(_, _, _)
NormComps(comps, new_comps, initial_slashes) ==
    IF comps = <<>> THEN new_comps
    ELSE LET comp == Head(comps)
             rest == Tail(comps)
         IN  IF comp = <<>> \/ comp = <<".">>
             THEN NormComps(rest, new_comps, initial_slashes)
             ELSE IF \/ comp # <<".", ".">>
                     \/ (initial_slashes = 0 /\ new_comps = <<>>)
                     \/ (new_comps # <<>>
                            /\ new_comps[Len(new_comps)] = <<".", ".">>)
             THEN NormComps(rest, Append(new_comps, comp), initial_slashes)
             ELSE IF new_comps # <<>>
             THEN NormComps(rest, SubSeq(new_comps, 1, Len(new_comps) - 1),
                            initial_slashes)
             ELSE NormComps(rest, new_comps, initial_slashes)

\* os.path.normpath(path)
normpath(path) ==
    IF path = <<>> THEN <<".">>
    ELSE LET initial_slashes ==
                 IF ~StartsWith(path, <<"/">>) THEN 0
                 ELSE IF StartsWith(path, <<"/", "/">>)
                         /\ ~StartsWith(path, <<"/", "/", "/">>)
                 THEN 2 ELSE 1
             comps == NormComps(SplitPath(path), <<>>, initial_slashes)
             joined == [i \in 1..initial_slashes |-> "/"] \o JoinPath(comps)
         IN  IF joined = <<>> THEN <<".">> ELSE joined

\* os.path.join(a, b)
join(a, b) ==
    IF StartsWith(b, <<"/">>) THEN b
    ELSE IF a = <<>> \/ a[Len(a)] = "/" THEN a \o b
    ELSE a \o <<"/">> \o b

\* self.files_dir, an absolute path
files_dir == <<"/", "s", "/", "f">>

\* line 138: the normalized path starts with the normalized files_dir
InsideByPrefix(file_path) ==
    StartsWith(normpath(file_path), normpath(files_dir))

\* handle_request for the :path of a request (<<>> if there is none): the
\* status sent, and the file whose content is sent with it
handle_request(path, files) ==
    IF path = <<>> \/ path[1] = <<>>
    THEN [status |-> 400, data |-> <<>>]
    ELSE LET request_path == IF StartsWith(path[1], <<"/">>)
                             THEN Tail(path[1]) ELSE path[1]
             file_path == join(files_dir, request_path)
         IN  IF ~InsideByPrefix(file_path)
             THEN [status |-> 403, data |-> <<>>]
             ELSE IF normpath(file_path) \notin files
             THEN [status |-> 404, data |-> <<>>]
             ELSE [status |-> 200, data |-> <<normpath(file_path)>>]

\* the files that may exist on the server's machine: one in files_dir, one
\* in a directory next to it whose name starts like it, one in another
\* directory next to it, and one at the root
MachineFiles ==
    {<<"/", "s", "/", "f", "/", "a">>,
     <<"/", "s", "/", "f", "x", "/", "a">>,
     <<"/", "s", "/", "g", "/", "a">>,
     <<"/", "e">>}

\* the :path values a client may send, and a request without :path
RequestPaths ==
    {<<>>,
     << <<"/">> >>,
     << <<"/", "a">> >>,
     << <<"/", "b">> >>,
     << <<"/", ".", "/", "a">> >>,
     << <<"/", "d", "/", ".", ".", "/", "a">> >>,
     << <<"/", ".", ".", "/", "f", "x", "/", "a">> >>,
     << <<"/", ".", ".", "/", "g", "/", "a">> >>,
     << <<"/", ".", ".", "/", ".", ".", "/", "e">> >>,
     << <<"/", "/", "e">> >>}

\* the server has accepted a connection on which requests will arrive
ServerInit ==
    /\ pc = "serve"
    /\ raised = "none"
    /\ StatsIdle
    /\ AnalyzeIdle
    /\ SwarmIdle
    /\ HttpIdle
    /\ server_files \in SUBSET MachineFiles
    /\ requests \in UNION {[1..n -> RequestPaths] : n \in 1..MaxRequests}
    /\ sent = <<>>

\* lines 100-102: a RequestReceived event is handled
HandleRequest ==
    /\ pc = "serve"
    /\ requests # <<>>
    /\ sent' = Append(sent, handle_request(Head(requests), server_files))
    /\ requests' = Tail(requests)
    /\ UNCHANGED <<pc, raised, stats_vars, analyze_vars, server_files>>
    /\ UNCHANGED <<FINISHED_CLIENTS, LOGGED, seeder_pc, log_file, torrents,
                   client_pc, client_run, history>>
    /\ UNCHANGED <<client, responses, exp_idx, attempts, results_data>>

\* lines 109-114: the connection is closed
CloseConnection ==
    /\ pc = "serve"
    /\ requests = <<>>
    /\ pc' = "closed"
    /\ UNCHANGED <<raised, stats_vars, analyze_vars, net_vars>>

ServerNext == HandleRequest \/ CloseConnection

SpecServer == ServerInit /\ [][ServerNext]_vars

(***************************************************************************)
(* src/bitTorrent/seeder.py and src/bitTorrent/client.py: the handshake    *)
(* between the runs.  The /ack and /ready handlers run in the threads of   *)
(* the API server and the seeder loop in the main thread; they share the   *)
(* globals FINISHED_CLIENTS and LOGGED without a lock, so every read and   *)
(* every assignment of a global is a step of its own.                      *)
(***************************************************************************)
\* the runs of a client (the command line argument of client.py)
MaxRuns == 2

\* the host names of the clients
Clients == {"c1", "c2", "c3"}

\* seeder.py lines 31 and 173: the number of clients of a round
RoundSize == 3

\* the acks a client has posted
AcksPosted(c) ==
    IF client_pc[c] \in {"download", "ack"}
    THEN client_run[c] - 1 ELSE client_run[c]

\* the runs every client has acked
CompleteRounds ==
    CHOOSE k \in 0..MaxRuns :
        /\ \A c \in Clients : AcksPosted(c) >= k
        /\ \E c \in Clients : AcksPosted(c) = k

\* the seeder has added the torrent and started its API, the clients start
\* their first run
SwarmInit ==
    /\ pc = "swarm"
    /\ raised = "none"
    /\ StatsIdle
    /\ AnalyzeIdle
    /\ HttpIdle
    /\ ServerIdle
    /\ FINISHED_CLIENTS = <<>>
    /\ LOGGED = FALSE
    /\ seeder_pc = "check"
    /\ log_file = <<>>
    /\ torrents = 1
    /\ client_pc = [c \in Clients |-> "download"]
    /\ client_run = [c \in Clients |-> 1]
    /\ history = [logs_since_reset |-> 0, logs_since_full |-> 0,
                  logged_rounds |-> {}]

\* client.py line 100: run_download
RunDownload(c) ==
    /\ client_pc[c] = "download"
    /\ client_pc' = [client_pc EXCEPT ![c] = "ack"]
    /\ UNCHANGED <<FINISHED_CLIENTS, LOGGED, seeder_pc, log_file, torrents,
                   client_run, history>>

\* client.py line 102 and seeder.py lines 20-25: POST /ack
Ack(c) ==
    /\ client_pc[c] = "ack"
    /\ FINISHED_CLIENTS' = Append(FINISHED_CLIENTS, c)
    /\ client_pc' = [client_pc EXCEPT ![c] = "ready"]
    /\ history' = IF Len(FINISHED_CLIENTS) + 1 = RoundSize
                  THEN [history EXCEPT !.logs_since_full = 0]
                  ELSE history
    /\ UNCHANGED <<LOGGED, seeder_pc, log_file, torrents, client_run>>

\* client.py line 107 and seeder.py line 31: GET /ready, the handler reads
\* len(FINISHED_CLIENTS)
ReadyLen(c) ==
    /\ client_pc[c] = "ready"
    /\ client_pc' = [client_pc EXCEPT ![c] =
                        IF Len(FINISHED_CLIENTS) = RoundSize
                        THEN "ready_logged" ELSE "ready_return"]
    /\ UNCHANGED <<FINISHED_CLIENTS, LOGGED, seeder_pc, log_file, torrents,
                   client_run, history>>

\* seeder.py line 31: the handler reads LOGGED
ReadyLogged(c) ==
    /\ client_pc[c] = "ready_logged"
    /\ client_pc' = [client_pc EXCEPT ![c] =
                        IF LOGGED THEN "ready_reset" ELSE "ready_return"]
    /\ UNCHANGED <<FINISHED_CLIENTS, LOGGED, seeder_pc, log_file, torrents,
                   client_run, history>>

\* seeder.py line 32: FINISHED_CLIENTS = []
ReadyResetFinished(c) ==
    /\ client_pc[c] = "ready_reset"
    /\ FINISHED_CLIENTS' = <<>>
    /\ client_pc' = [client_pc EXCEPT ![c] = "ready_reset_logged"]
    /\ history' = [history EXCEPT !.logs_since_reset = 0]
    /\ UNCHANGED <<LOGGED, seeder_pc, log_file, torrents, client_run>>

\* seeder.py line 33: LOGGED = False
ReadyResetLogged(c) ==
    /\ client_pc[c] = "ready_reset_logged"
    /\ LOGGED' = FALSE
    /\ client_pc' = [client_pc EXCEPT ![c] = "ready_return"]
    /\ UNCHANGED <<FINISHED_CLIENTS, seeder_pc, log_file, torrents,
                   client_run, history>>

\* seeder.py line 35: {"ready": client not in FINISHED_CLIENTS}
ReadyAnswer(c, finished) ==
    \A i \in 1..Len(finished) : finished[i] # c

\* seeder.py line 35 and client.py lines 108-115: the answer of /ready; the
\* client polls again, or leaves the loop for its next run
ReadyReturn(c) ==
    /\ client_pc[c] = "ready_return"
    /\ IF ~ReadyAnswer(c, FINISHED_CLIENTS)
       THEN /\ client_pc' = [client_pc EXCEPT ![c] = "ready"]
            /\ UNCHANGED client_run
       ELSE IF client_run[c] < MaxRuns
       THEN /\ client_pc' = [client_pc EXCEPT ![c] = "download"]
            /\ client_run' = [client_run EXCEPT ![c] = @ + 1]
       ELSE /\ client_pc' = [client_pc EXCEPT ![c] = "done"]
            /\ UNCHANGED client_run
    /\ UNCHANGED <<FINISHED_CLIENTS, LOGGED, seeder_pc, log_file, torrents,
                   history>>

\* seeder.py line 173: the loop reads len(FINISHED_CLIENTS)
SeederLen ==
    /\ seeder_pc = "check"
    /\ seeder_pc' = IF Len(FINISHED_CLIENTS) = RoundSize
                    THEN "check_logged" ELSE "check"
    /\ UNCHANGED <<FINISHED_CLIENTS, LOGGED, log_file, torrents, client_pc,
                   client_run, history>>

\* seeder.py line 173: the loop reads LOGGED
SeederLogged ==
    /\ seeder_pc = "check_logged"
    /\ seeder_pc' = IF ~LOGGED THEN "log" ELSE "check"
    /\ UNCHANGED <<FINISHED_CLIENTS, LOGGED, log_file, torrents, client_pc,
                   client_run, history>>

\* seeder.py lines 174-215: the run summary is appended to the log file
SeederLog ==
    /\ seeder_pc = "log"
    /\ log_file' = Append(log_file, "summary_log")
    /\ seeder_pc' = "readd"
    /\ history' = [logs_since_reset |-> history.logs_since_reset + 1,
                   logs_since_full |-> history.logs_since_full + 1,
                   logged_rounds |-> history.logged_rounds \cup {CompleteRounds}]
    /\ UNCHANGED <<FINISHED_CLIENTS, LOGGED, torrents, client_pc, client_run>>

\* seeder.py lines 220-221: the torrent is removed and added again
SeederReadd ==
    /\ seeder_pc = "readd"
    /\ torrents' = torrents + 1
    /\ seeder_pc' = "set_logged"
    /\ UNCHANGED <<FINISHED_CLIENTS, LOGGED, log_file, client_pc, client_run,
                   history>>

\* seeder.py lines 222-224: LOGGED = True, and the next turn of the loop
SeederSetLogged ==
    /\ seeder_pc = "set_logged"
    /\ LOGGED' = TRUE
    /\ seeder_pc' = "check"
    /\ UNCHANGED <<FINISHED_CLIENTS, log_file, torrents, client_pc,
                   client_run, history>>

\* what a step of the handshake leaves alone
SwarmFrame ==
    UNCHANGED <<pc, raised, stats_vars, analyze_vars, client, responses,
                exp_idx, attempts, results_data, server_files, requests, sent>>

ClientStep(c) ==
    /\ \/ RunDownload(c)
       \/ Ack(c)
       \/ ReadyLen(c)
       \/ ReadyLogged(c)
       \/ ReadyResetFinished(c)
       \/ ReadyResetLogged(c)
       \/ ReadyReturn(c)
    /\ SwarmFrame

SeederStep ==
    /\ \/ SeederLen
       \/ SeederLogged
       \/ SeederLog
       \/ SeederReadd
       \/ SeederSetLogged
    /\ SwarmFrame

SwarmNext == SeederStep \/ \E c \in Clients : ClientStep(c)

SpecSwarm == SwarmInit /\ [][SwarmNext]_vars

\* the seeder loop runs for ever and every client's thread and every
\* handler's thread gets its turn
SpecSwarmFair ==
    /\ SpecSwarm
    /\ WF_vars(SeederStep)
    /\ \A c \in Clients : WF_vars(ClientStep(c))

(***************************************************************************)
(* Properties of the aggregator (src/utils.py), checked under SpecStats.   *)
(***************************************************************************)
\* the integer values of a metric over the samples
MetricValues(metric) == [i \in 1..Len(results) |-> results[i][metric].n]

RECURSIVE IntSum(_)
IntSum(s) == IF s = <<>> THEN 0 ELSE Head(s) + IntSum(Tail(s))

IntSumOfSquares(s) == IntSum([i \in 1..Len(s) |-> s[i] * s[i]])

\* the statistics the aggregator has returned for a metric, as a set: one
\* element from a direct call (transfer times only), one from the summary
Returned(metric) ==
    (IF pc = "calculated" /\ metric = "transfer_time" THEN {stats[1]} ELSE {})
    \cup (IF pc = "aggregated" /\ summary # <<>>
          THEN {IF metric = "throughput" THEN summary[1].throughput_bps
                ELSE summary[1][metric]}
          ELSE {})

SampleMetrics == {"transfer_time", "throughput", "overhead_ratio"}

\* C1: for every non-empty sequence of metric values the returned mean is
\* the arithmetic mean: mean * n = sum(values).
C1_MeanIsArithmeticMean ==
    \A metric \in SampleMetrics : \A st \in Returned(metric) :
        Len(results) >= 1 =>
            st.mean.n * Len(results) = IntSum(MetricValues(metric)) * st.mean.d

\* three samples whose transfer times do not average to an integer have
\* been summarised
C1_Witness ==
    /\ pc = "aggregated"
    /\ Len(results) = 3
    /\ summary # <<>>
    /\ summary[1].transfer_time.mean.d = 3

\* C2: the returned standard deviation is the sample standard deviation:
\* for n >= 2, stddev^2 * (n-1) is the sum of squared deviations from the
\* mean, which is (n * sum(x^2) - sum(x)^2) / n; for n = 1 it is exactly 0.
C2_SampleStddev ==
    \A metric \in SampleMetrics : \A st \in Returned(metric) :
        LET n == Len(results)
            xs == MetricValues(metric)
            var == Square(st.stddev)
        IN  /\ n >= 2 =>
                var.n * (n - 1) * n
                    = (n * IntSumOfSquares(xs) - IntSum(xs) * IntSum(xs)) * var.d
            /\ n = 1 => st.stddev = StdZero

\* three samples of different transfer times have been summarised and the
\* standard deviation is not 0
C2_Witness ==
    /\ pc = "aggregated"
    /\ Len(results) = 3
    /\ summary # <<>>
    /\ summary[1].transfer_time.stddev # StdZero
    /\ summary[1].throughput_bps.stddev # StdZero

\* C3 as stated: the aggregator invoked on an empty sequence fails with
\* InvalidInput.
C3_EmptyFailsInvalidInput ==
    (results = <<>> /\ pc # "aggregate") => raised = "InvalidInput"

\* C3 amended: on an empty sequence nothing is raised; calculate_statistics
\* returns {mean: 0, stddev: 0} and process_experiment_results returns None,
\* so no Summary is built for zero samples.
C3_EmptyReturnsMarker ==
    (results = <<>> /\ pc # "aggregate") =>
        /\ raised = "none"
        /\ pc \in {"calculated", "aggregated"}
        /\ pc = "calculated" => stats = <<[mean |-> Zero, stddev |-> StdZero]>>
        /\ pc = "aggregated" => summary = <<>>

\* process_experiment_results has returned on an empty list
C3_Witness ==
    /\ results = <<>>
    /\ pc = "aggregated"
    /\ summary = <<>>

(***************************************************************************)
(* Properties of the merger (src/analyze.py), checked under SpecMerge.     *)
(*                                                                         *)
(* The Summaries contributing to a merged cell are those the code has      *)
(* collected for it in size_results.                                       *)
(***************************************************************************)
MetricNames == {Metrics[i] : i \in 1..Len(Metrics)}

\* the summaries among rs whose mean of the metric is not 0
WithMean(rs, metric) == {i \in 1..Len(rs) : rs[i][metric].mean # Zero}

\* the summaries among rs whose standard deviation of the metric is > 0
WithStddev(rs, metric) ==
    {i \in 1..Len(rs) : RLess(Zero, Square(rs[i][metric].stddev))}

\* the sum of the means of the metric over the summaries idx of rs
RECURSIVE MeanSumOver(_, _, _)
MeanSumOver(rs, metric, idx) ==
    IF idx = {} THEN Zero
    ELSE LET i == CHOOSE x \in idx : TRUE
         IN  RAdd(rs[i][metric].mean, MeanSumOver(rs, metric, idx \ {i}))

\* the sum of the squared standard deviations over the summaries idx of rs
RECURSIVE SquareSumOver(_, _, _)
SquareSumOver(rs, metric, idx) ==
    IF idx = {} THEN Zero
    ELSE LET i == CHOOSE x \in idx : TRUE
         IN  RAdd(Square(rs[i][metric].stddev),
                  SquareSumOver(rs, metric, idx \ {i}))

Times(a, k) == RMul(a, RatOfInt(k))

\* C4: the merged mean of every cell is the arithmetic mean of exactly the
\* contributing means that are not 0: merged mean * (number of non-zero
\* means) = sum of the non-zero means.
C4_MeanOfNonzeroMeans ==
    \A label \in DOMAIN merged_data : \A metric \in MetricNames :
        LET rs == size_results[label]
            idx == WithMean(rs, metric)
        IN  idx # {} =>
                Times(merged_data[label][metric].mean, Cardinality(idx))
                    = MeanSumOver(rs, metric, idx)

\* two summaries were combined, one with a zero mean, and the merged mean
\* is the other one's mean
C4_Witness ==
    \E label \in DOMAIN merged_data : \E metric \in MetricNames :
        LET rs == size_results[label]
        IN  /\ Len(rs) = 2
            /\ rs[1][metric].mean = Zero
            /\ rs[2][metric].mean = RatOfInt(3)
            /\ merged_data[label][metric].mean = RatOfInt(3)

\* C5: where a cell has a non-zero mean, its merged stddev is the
\* root-mean-square of exactly the contributing stddevs > 0 (stddevs 2 and
\* 4 give stddev^2 = 10), and 0 when there is none.
C5_RmsOfPositiveStddevs ==
    \A label \in DOMAIN merged_data : \A metric \in MetricNames :
        LET rs == size_results[label]
            idx == WithStddev(rs, metric)
            sd == merged_data[label][metric].stddev
        IN  WithMean(rs, metric) # {} =>
                IF idx # {}
                THEN Times(Square(sd), Cardinality(idx))
                         = SquareSumOver(rs, metric, idx)
                ELSE sd = StdZero

\* summaries with the stddevs 2 and 4 were combined to stddev^2 = 10
C5_Witness ==
    \E label \in DOMAIN merged_data : \E metric \in MetricNames :
        LET rs == size_results[label]
        IN  /\ Len(rs) = 2
            /\ rs[1][metric].stddev = StdOfInt(2)
            /\ rs[2][metric].stddev = StdOfInt(4)
            /\ merged_data[label][metric].stddev = Sqrt(RatOfInt(10))

\* C6 as stated: combined_stddev^2 * n = sum of stddev_i^2, n the number of
\* summaries over which the means are averaged.
C6_RmsOverAveragedCount ==
    \A label \in DOMAIN merged_data : \A metric \in MetricNames :
        LET rs == size_results[label]
            n == Cardinality(WithMean(rs, metric))
        IN  n > 0 =>
                Times(Square(merged_data[label][metric].stddev), n)
                    = SquareSumOver(rs, metric, 1..Len(rs))

\* C6 amended: combined_stddev^2 * k = sum of stddev_i^2, k the number of
\* combined summaries whose stddev is not 0; it is the stated relation with
\* n exactly when k = n or every stddev is 0.
C6_RmsOverNonzeroCount ==
    \A label \in DOMAIN merged_data : \A metric \in MetricNames :
        LET rs == size_results[label]
            n == Cardinality(WithMean(rs, metric))
            k == Cardinality(WithStddev(rs, metric))
            sq == Square(merged_data[label][metric].stddev)
            total == SquareSumOver(rs, metric, 1..Len(rs))
        IN  n > 0 =>
                /\ Times(sq, k) = total
                /\ (Times(sq, n) = total) <=> (k = n \/ k = 0)

\* two summaries with non-zero means, one with stddev 0 and one with stddev
\* 4, were combined to stddev 4
C6_Witness ==
    \E label \in DOMAIN merged_data : \E metric \in MetricNames :
        LET rs == size_results[label]
        IN  /\ Len(rs) = 2
            /\ Cardinality(WithMean(rs, metric)) = 2
            /\ rs[1][metric].stddev = StdZero
            /\ rs[2][metric].stddev = StdOfInt(4)
            /\ merged_data[label][metric].stddev = StdOfInt(4)

\* C7: a cell none of whose contributing summaries has a non-zero mean is
\* exactly {mean: 0, stddev: 0}, whatever their stddevs.
C7_AbsenceMarker ==
    \A label \in DOMAIN merged_data : \A metric \in MetricNames :
        WithMean(size_results[label], metric) = {} =>
            merged_data[label][metric] = [mean |-> Zero, stddev |-> StdZero]

\* summaries with zero means and a stddev that is not 0 were combined
C7_Witness ==
    \E label \in DOMAIN merged_data : \E metric \in MetricNames :
        LET rs == size_results[label]
        IN  /\ Len(rs) = 2
            /\ WithMean(rs, metric) = {}
            /\ WithStddev(rs, metric) # {}
            /\ merged_data[label][metric] = [mean |-> Zero, stddev |-> StdZero]

\* the label a size stands for: the raw byte counts and the labels themselves
LabelOf ==
    [z \in {R10240, R102400, R1048576, R10485760} \cup CanonicalSizes |->
        CASE z = R10240 -> L10kB
          [] z = R102400 -> L100kB
          [] z = R1048576 -> L1MB
          [] z = R10485760 -> L10MB
          [] OTHER -> z]

\* the keys that name a size: the size itself or the size after a prefix
KeysOf(z) == {z, Prefixed("A", z), Prefixed("B", z)}

\* the protocols whose merge has returned, by their position
MergedProtocols == 1..Len(protocol_data)

\* the entries of the parsed files of protocol i that stand for the label,
\* as <<file, position in the file>>
Contributions(i, label) ==
    LET frs == protocol_files[i].val
        positions == UNION {{<<j, q>> : q \in 1..Len(frs[j])} : j \in 1..Len(frs)}
    IN  {c \in positions :
            \E z \in DOMAIN LabelOf :
                LabelOf[z] = label /\ frs[c[1]][c[2]].key \in KeysOf(z)}

\* C8 as stated: a label that only one file contributes to is in the merged
\* output with that file's mean and stddev unchanged for every metric.
C8_SingleSummaryIdentity ==
    \A i \in MergedProtocols : \A label \in CanonicalSizes :
        \A c \in Contributions(i, label) :
            Contributions(i, label) = {c} =>
                /\ label \in DOMAIN protocol_data[i].val
                /\ \A metric \in MetricNames :
                     protocol_data[i].val[label][metric]
                         = protocol_files[i].val[c[1]][c[2]].val[metric]

\* C8 amended: such a label is in the merged output; for every metric the
\* merged mean is the file's mean, and the merged stddev is the file's
\* stddev where the mean is not 0 and 0 where the mean is 0.
C8_SingleSummaryIdentityNonzeroMean ==
    \A i \in MergedProtocols : \A label \in CanonicalSizes :
        \A c \in Contributions(i, label) :
            Contributions(i, label) = {c} =>
                /\ label \in DOMAIN protocol_data[i].val
                /\ \A metric \in MetricNames :
                     LET given == protocol_files[i].val[c[1]][c[2]].val[metric]
                         cell == protocol_data[i].val[label][metric]
                     IN  /\ cell.mean = given.mean
                         /\ cell.stddev = IF given.mean # Zero
                                          THEN given.stddev ELSE StdZero

\* two files with different labels were merged: both labels are in the
\* output, one with the mean 3 and stddev 4 of its only file
C8_Witness ==
    /\ pc = "done"
    /\ Len(protocol_files[1].val) = 2
    /\ DOMAIN protocol_data[1].val = {L10kB, L1MB}
    /\ Contributions(1, L1MB) = {<<2, 1>>}
    /\ protocol_files[1].val[2][1].val["transfer_time"]
           = [mean |-> RatOfInt(3), stddev |-> StdOfInt(4)]
    /\ protocol_data[1].val[L1MB]["transfer_time"]
           = [mean |-> RatOfInt(3), stddev |-> StdOfInt(4)]

\* C10: a key that is a raw byte count, bare or after a prefix, is merged
\* under its canonical label, a canonical label under itself, and every
\* key of the merged output is one of the four canonical labels.
C10_SizeNormalization ==
    /\ DOMAIN merged_data \subseteq CanonicalSizes
    /\ \A i \in MergedProtocols :
        LET frs == protocol_files[i].val
            out == protocol_data[i].val
        IN  /\ DOMAIN out \subseteq CanonicalSizes
            /\ \A j \in 1..Len(frs) : \A z \in DOMAIN LabelOf :
                 Keys(frs[j]) \cap KeysOf(z) # {} => LabelOf[z] \in DOMAIN out
            /\ \A z \in DOMAIN LabelOf :
                 (Len(frs) = 1 /\ Keys(frs[1]) \subseteq KeysOf(z))
                     => DOMAIN out = {LabelOf[z]}

\* a file whose only key is A_1048576 was merged under 1MB
C10_Witness ==
    /\ pc = "done"
    /\ Len(result_files) = 1
    /\ Keys(result_files[1].files) = {Prefixed("A", R1048576)}
    /\ DOMAIN protocol_data[1].val = {L1MB}

(***************************************************************************)
(* Properties of the whole run, checked under SpecPipeline.                *)
(***************************************************************************)
\* the name a metric has in a result document
DocField(metric) == IF metric = "throughput" THEN "throughput_bps" ELSE metric

\* the documents of the protocol that parse_results reads without an error
DocsOf(protocol) ==
    {j \in 1..Len(result_files) :
        /\ result_files[j].json_ok
        /\ parse_entries(result_files[j].files, <<>>).raised = "none"
        /\ result_files[j].protocol = <<protocol>>}

\* main has merged every protocol and written the workbook
Merged == pc = "done"

\* 1 if the number is not 0, else 0
Nonzero(x) == IF x # Zero THEN 1 ELSE 0

\* exactly two documents carry the protocol, a and b, with one entry each
\* for 10kB under the prefixes A and B
TwoPrefixedFiles(protocol, a, b) ==
    /\ DocsOf(protocol) = {a, b}
    /\ a < b
    /\ Keys(result_files[a].files) \cup Keys(result_files[b].files)
           = {Prefixed("A", L10kB), Prefixed("B", L10kB)}
    /\ Keys(result_files[a].files) # Keys(result_files[b].files)

\* the positions of the protocol in the merged output
CellsOf(protocol) ==
    {i \in 1..Len(protocol_data) : protocol_data[i].key = protocol}

\* C9 as stated: two files of one protocol with a Summary for the same
\* label under differently prefixed keys give one merged cell under that
\* protocol, with the average of the two means and the RMS of the two
\* stddevs.
C9_TwoFilesAverageAndRms ==
    \A protocol \in {"HTTP/1.1", "HTTP/2"} :
        \A a, b \in 1..Len(result_files) :
            (Merged /\ TwoPrefixedFiles(protocol, a, b)) =>
                /\ Cardinality(CellsOf(protocol)) = 1
                /\ \A i \in CellsOf(protocol) :
                    /\ DOMAIN protocol_data[i].val = {L10kB}
                    /\ \A metric \in MetricNames :
                        LET x == result_files[a].files[1].val[DocField(metric)]
                            y == result_files[b].files[1].val[DocField(metric)]
                            cell == protocol_data[i].val[L10kB][metric]
                        IN  /\ Times(cell.mean, 2) = RAdd(x.mean, y.mean)
                            /\ Times(Square(cell.stddev), 2)
                                 = RAdd(Square(x.stddev), Square(y.stddev))

\* C9 amended: they give one merged cell under that protocol; its mean is
\* the average of those of the two means that are not 0 and its stddev the
\* RMS of those of the two stddevs that are not 0, {0, 0} when both means
\* are 0; with all four values non-zero that is the average of the two
\* means and the RMS of the two stddevs.
C9_TwoFilesNonzeroAverageAndRms ==
    \A protocol \in {"HTTP/1.1", "HTTP/2"} :
        \A a, b \in 1..Len(result_files) :
            (Merged /\ TwoPrefixedFiles(protocol, a, b)) =>
                /\ Cardinality(CellsOf(protocol)) = 1
                /\ \A i \in CellsOf(protocol) :
                    /\ DOMAIN protocol_data[i].val = {L10kB}
                    /\ \A metric \in MetricNames :
                        LET x == result_files[a].files[1].val[DocField(metric)]
                            y == result_files[b].files[1].val[DocField(metric)]
                            cell == protocol_data[i].val[L10kB][metric]
                            n == Nonzero(x.mean) + Nonzero(y.mean)
                            k == Nonzero(Square(x.stddev))
                                     + Nonzero(Square(y.stddev))
                        IN  IF n = 0
                            THEN cell = [mean |-> Zero, stddev |-> StdZero]
                            ELSE /\ Times(cell.mean, n) = RAdd(x.mean, y.mean)
                                 /\ Times(Square(cell.stddev), k)
                                      = RAdd(Square(x.stddev), Square(y.stddev))
                                 /\ (n = 2 /\ k = 2) =>
                                      /\ Times(cell.mean, 2) = RAdd(x.mean, y.mean)
                                      /\ Times(Square(cell.stddev), 2)
                                           = RAdd(Square(x.stddev), Square(y.stddev))

\* two HTTP/1.1 files, A_10kB with mean 1 and stddev 2 and B_10kB with mean
\* 3 and stddev 4, were merged to mean 2 and stddev^2 = 10
C9_Witness ==
    /\ pc = "done"
    /\ TwoPrefixedFiles("HTTP/1.1", 1, 2)
    /\ result_files[1].files[1].val["transfer_time"]
           = [mean |-> RatOfInt(1), stddev |-> StdOfInt(2)]
    /\ result_files[2].files[1].val["transfer_time"]
           = [mean |-> RatOfInt(3), stddev |-> StdOfInt(4)]
    /\ protocol_data[1].val[L10kB]["transfer_time"]
           = [mean |-> RatOfInt(2), stddev |-> Sqrt(RatOfInt(10))]

(***************************************************************************)
(* Keys of the input entries, checked under SpecMerge.                     *)
(***************************************************************************)
\* the entries of the result documents, as <<file, position in the file>>
InputEntries ==
    UNION {{<<j, q>> : q \in 1..Len(result_files[j].files)} :
              j \in 1..Len(result_files)}

KeyAt(c) == result_files[c[1]].files[c[2]].key

\* neither a label nor a raw byte count, bare or after a prefix
Unrecognized(key) == ~ \E z \in DOMAIN LabelOf : key \in KeysOf(z)

\* C11: an input entry whose key is neither a canonical label nor a
\* recognized raw byte count is dropped silently: no error is raised, and
\* every other entry of the same input is still merged.
C11_UnrecognizedKeyDropped ==
    (\E c \in InputEntries : Unrecognized(KeyAt(c))) =>
        /\ raised = "none"
        /\ pc = "done" =>
              \A c \in InputEntries :
                  ~Unrecognized(KeyAt(c)) =>
                      \E z \in DOMAIN LabelOf :
                          /\ KeyAt(c) \in KeysOf(z)
                          /\ LabelOf[z] \in DOMAIN protocol_data[1].val

\* the files of protocol i with an entry that stands for the label
ContributingFiles(i, label) == {c[1] : c \in Contributions(i, label)}

\* C12: for each canonical label the merged cell combines the Summary of
\* every input file that has an entry normalizing to the label, whatever the
\* form of the key: no contributing file is left out of the summaries the
\* cell was computed from.
C12_EveryContributionCombined ==
    (pc = "done" /\ Len(protocol_data) = 1) =>
        \A label \in CanonicalSizes :
            \A j \in ContributingFiles(1, label) :
                /\ label \in DOMAIN merged_data
                /\ \E c \in Contributions(1, label) :
                       /\ c[1] = j
                       /\ \E k \in 1..Len(size_results[label]) :
                              size_results[label][k]
                                  = protocol_files[1].val[j][c[2]].val

(***************************************************************************)
(* Properties of the report, checked under SpecReport.                     *)
(***************************************************************************)
\* the sheets of the written workbook
Sheets == {workbook[s].val : s \in 1..Len(workbook)}

\* the rows of the sheet that carry the label
RowsOf(sheet, label) == {r \in 1..Len(sheet.index) : sheet.index[r] = label}

\* the Mean and Std Dev cells of the protocol at position p are both None
BlankAt(sheet, r, p) ==
    /\ sheet.data[r][2 * p - 1] = <<>>
    /\ sheet.data[r][2 * p] = <<>>

\* the size labels that some protocol of the input mapping has an entry for
PopulatedSizes ==
    UNION {DOMAIN protocol_data[p].val : p \in 1..Len(protocol_data)}

\* C13: a (protocol, size label) pair with no entry in the input mapping of
\* create_excel is written blank in both the Mean and the Std Dev column,
\* never as zero, and the row of the label exists when another protocol has
\* the label.
C13_MissingPairBlank ==
    pc = "done" =>
        \A sheet \in Sheets : \A p \in 1..Len(protocol_data) :
            /\ \A r \in 1..Len(sheet.index) :
                   sheet.index[r] \notin DOMAIN protocol_data[p].val
                       => BlankAt(sheet, r, p)
            /\ \A label \in PopulatedSizes \ DOMAIN protocol_data[p].val :
                   RowsOf(sheet, label) # {}

\* HTTP/1.1 has 1MB only and BitTorrent has 10kB only: the 1MB row exists
\* with numbers for HTTP/1.1 and blanks for BitTorrent
C13_Witness ==
    /\ pc = "done"
    /\ Len(protocol_data) = 2
    /\ DOMAIN protocol_data[1].val = {L1MB}
    /\ DOMAIN protocol_data[2].val = {L10kB}
    /\ workbook[1].val.index = <<L10kB, L1MB>>
    /\ workbook[1].val.data[2][1] # <<>>
    /\ BlankAt(workbook[1].val, 2, 2)
    /\ BlankAt(workbook[1].val, 1, 1)

\* C14: a metric cell the merger marked absent with {mean 0, stddev 0} is
\* rendered blank by the run that merges and then writes the report, not as
\* the number 0.
C14_AbsentCellBlank ==
    pc = "done" =>
        \A s \in 1..Len(workbook) : \A p \in 1..Len(protocol_data) :
            \A label \in DOMAIN protocol_data[p].val :
                protocol_data[p].val[label][Metrics[s]]
                        = [mean |-> Zero, stddev |-> StdZero]
                    => /\ RowsOf(workbook[s].val, label) # {}
                       /\ \A r \in RowsOf(workbook[s].val, label) :
                              BlankAt(workbook[s].val, r, p)

\* C15 as stated: for a non-empty input mapping each sheet has a row for
\* each of the four canonical size labels, also for a label that is
\* populated for no protocol, and every row has a Mean and a Std Dev cell
\* for every protocol.
C15_RowForEveryCanonicalSize ==
    pc = "done" =>
        \A sheet \in Sheets :
            /\ {sheet.index[r] : r \in 1..Len(sheet.index)} = CanonicalSizes
            /\ \A r \in 1..Len(sheet.index) :
                   Len(sheet.data[r]) = 2 * Len(protocol_data)

\* C15, amended: for a non-empty input mapping each sheet has exactly one
\* row for each size label that at least one protocol has an entry for, and
\* no row for the other labels; every row has a Mean and a Std Dev cell for
\* every protocol.
C15_RowForEveryPopulatedSize ==
    pc = "done" =>
        \A sheet \in Sheets :
            /\ {sheet.index[r] : r \in 1..Len(sheet.index)} = PopulatedSizes
            /\ Len(sheet.index) = Cardinality(PopulatedSizes)
            /\ Len(sheet.data) = Len(sheet.index)
            /\ Len(sheet.columns) = 2 * Len(protocol_data)
            /\ \A r \in 1..Len(sheet.index) :
                   Len(sheet.data[r]) = 2 * Len(protocol_data)

\* two protocols populate 10kB and 1MB between them: the sheets have these
\* two rows, each with four cells, and no row for 100kB or 10MB
C15_Witness ==
    /\ pc = "done"
    /\ Len(protocol_data) = 2
    /\ DOMAIN protocol_data[1].val = {L10kB}
    /\ DOMAIN protocol_data[2].val = {L1MB}
    /\ \A sheet \in Sheets :
           /\ sheet.index = <<L10kB, L1MB>>
           /\ Len(sheet.data[1]) = 4
           /\ Len(sheet.data[2]) = 4

\* the four labels from the smallest size to the largest
CanonicalOrder == <<L10kB, L100kB, L1MB, L10MB>>

PlaceOf(label) == CHOOSE i \in 1..Len(CanonicalOrder) : CanonicalOrder[i] = label

\* C16: the rows of every sheet are in the canonical order 10kB, 100kB, 1MB,
\* 10MB, whatever the order of the sizes in the input.
C16_CanonicalRowOrder ==
    pc = "done" =>
        \A sheet \in Sheets :
            \A a, b \in 1..Len(sheet.index) :
                a < b => PlaceOf(sheet.index[a]) < PlaceOf(sheet.index[b])

\* a file that holds the sizes from 10MB down to 10kB gives the rows from
\* 10kB up to 10MB
C16_Witness ==
    /\ pc = "done"
    /\ Len(result_files) = 1
    /\ [q \in 1..Len(result_files[1].files) |->
           SplitField1(result_files[1].files[q].key)]
         = <<L10MB, L1MB, L100kB, L10kB>>
    /\ \A sheet \in Sheets : sheet.index = CanonicalOrder

\* the metric a sheet of the workbook shows
MetricOfSheet ==
    [name \in {"Transfer Time (s)", "Throughput (bps)", "Overhead Ratio"} |->
        CASE name = "Transfer Time (s)" -> "transfer_time"
          [] name = "Throughput (bps)" -> "throughput"
          [] name = "Overhead Ratio" -> "overhead_ratio"]

\* C17: for a non-empty input mapping the workbook has exactly three sheets,
\* one per metric; each has exactly the two columns Mean and Std Dev per
\* protocol, and the cells of the sheet of metric M for protocol P and size
\* S hold P's merged mean and stddev of M at S.
C17_ThreeSheetsOfMergedValues ==
    pc = "done" =>
        /\ Len(workbook) = 3
        /\ {workbook[s].key : s \in 1..Len(workbook)} = DOMAIN MetricOfSheet
        /\ \A s \in 1..Len(workbook) :
            LET sheet == workbook[s].val
                metric == MetricOfSheet[workbook[s].key]
            IN  /\ Len(sheet.columns) = 2 * Len(protocol_data)
                /\ \A p \in 1..Len(protocol_data) :
                    /\ sheet.columns[2 * p - 1] = <<protocol_data[p].key, "Mean">>
                    /\ sheet.columns[2 * p] = <<protocol_data[p].key, "Std Dev">>
                    /\ \A r \in 1..Len(sheet.index) :
                        LET data == protocol_data[p].val
                            S == sheet.index[r]
                        IN  S \in DOMAIN data =>
                              /\ sheet.data[r][2 * p - 1] = <<data[S][metric].mean>>
                              /\ sheet.data[r][2 * p] = <<data[S][metric].stddev>>

\* HTTP/1.1 with throughput 3 and 4 and BitTorrent with throughput 1 and 2
\* at 10kB: the second sheet holds these four numbers in one row
C17_Witness ==
    /\ pc = "done"
    /\ Len(workbook) = 3
    /\ workbook[2].key = "Throughput (bps)"
    /\ workbook[2].val.columns
           = << <<"HTTP/1.1", "Mean">>, <<"HTTP/1.1", "Std Dev">>,
                <<"BitTorrent", "Mean">>, <<"BitTorrent", "Std Dev">> >>
    /\ workbook[2].val.index = <<L10kB>>
    /\ workbook[2].val.data[1]
           = << <<RatOfInt(3)>>, <<StdOfInt(4)>>,
                <<RatOfInt(1)>>, <<StdOfInt(2)>> >>

\* C18: when no result files were found, so that the input mapping of
\* create_excel is empty, building the report does not fail: the run ends
\* normally with an empty workbook that has no data sheets.
C18_EmptyMappingEmptyWorkbook ==
    result_files = <<>> =>
        /\ raised = "none"
        /\ pc # "raised"
        /\ workbook = <<>>

(***************************************************************************)
(* Files that are not well formed, checked under SpecPipeline.             *)
(***************************************************************************)
\* json.load fails, or an entry lacks one of the three metric objects:
\* parse_results reports the error and returns no results
Skipped(doc) ==
    \/ ~doc.json_ok
    \/ parse_entries(doc.files, <<>>).raised # "none"

\* a metric object of an entry lacks the mean or the stddev
LacksStatistic(doc) ==
    \E q \in 1..Len(doc.files) :
        \E f \in DOMAIN doc.files[q].val :
            ~({"mean", "stddev"} \subseteq DOMAIN doc.files[q].val[f])

\* C19: a malformed or unreadable input document (invalid JSON, a missing
\* metric object, or a metric object without mean or stddev) never aborts
\* the run: nothing is raised, and the remaining files are parsed and merged
\* on the way to the report.
C19_MalformedNeverAborts ==
    (\E j \in 1..Len(result_files) :
         Skipped(result_files[j]) \/ LacksStatistic(result_files[j]))
        => /\ raised = "none"
           /\ pc # "raised"

\* the documents parse_results reads without an error
Kept == {j \in 1..Len(result_files) : ~Skipped(result_files[j])}

\* C20: a skipped malformed file contributes nothing to the report: the
\* protocols of the merged output and of the rendered columns are those of
\* the files that were read, as if the skipped file had not been found; it
\* adds no protocol of its own.
C20_SkippedFileAddsNothing ==
    pc = "done" =>
        LET protocols == {result_files[j].protocol[1] : j \in Kept}
        IN  /\ {protocol_data[i].key : i \in 1..Len(protocol_data)} = protocols
            /\ \A s \in 1..Len(workbook) :
                   {workbook[s].val.columns[c][1] :
                        c \in 1..Len(workbook[s].val.columns)} = protocols

(***************************************************************************)
(* Discovery of the result files, checked under SpecDiscover.              *)
(***************************************************************************)
\* results_<prefix>_from_<host>_<protocol>.json
IsResultName(name) ==
    /\ Len(name) = 7
    /\ name[1] = "results_" /\ name[3] = "_from_" /\ name[5] = "_"
    /\ name[7] = ".json"

\* C21: discovery is recursive: every file named
\* results_<prefix>_from_<host>_<protocol>.json at any depth below the
\* current directory, or in it, is discovered, and parsed when the run ends.
C21_DiscoveryRecursive ==
    pc # "glob" =>
        \A i \in 1..Len(disk) :
            (IsResultName(disk[i].name)
                /\ \A k \in 1..Len(disk[i].dir) : ~Hidden(disk[i].dir[k]))
            => /\ \E j \in 1..Len(result_files) : result_files[j] = disk[i].doc
               /\ pc = "done" => file_idx = Len(result_files)

(***************************************************************************)
(* Properties of the HTTP clients, checked under SpecClient.               *)
(***************************************************************************)
\* the clients that write the documents of the report
ProtocolClients == {"http1.1/client.py", "http2/client.py"}

\* the entry has the three metric objects, each with mean and stddev
ConformsToSchema(entry) ==
    /\ {"transfer_time", "throughput_bps", "overhead_ratio"} \subseteq DOMAIN entry
    /\ \A f \in {"transfer_time", "throughput_bps", "overhead_ratio"} :
           {"mean", "stddev"} \subseteq DOMAIN entry[f]

\* C22: every result document written by a protocol client conforms to the
\* schema the report reads: each entry of "files" has the objects
\* transfer_time, throughput_bps and overhead_ratio with mean and stddev, so
\* parse_results returns its entries under the document's protocol and does
\* not discard the file.
C22_WrittenDocumentsParse ==
    client \in ProtocolClients =>
        \A i \in 1..Len(disk) :
            LET doc == disk[i].doc
            IN  /\ \A q \in 1..Len(doc.files) : ConformsToSchema(doc.files[q].val)
                /\ (file_idx = 1 /\ result_files = <<doc>>) =>
                       /\ Keys(protocol_files) = {doc.protocol[1]}
                       /\ Keys(protocol_files[1].val[1]) = Keys(doc.files)

\* C23: every sample a collector's download_file returned and that is fed
\* to the aggregator has transfer_time >= 0, throughput >= 0, file_size > 0
\* and overhead_ratio >= 1, whatever the server answered.
C23_SampleRanges ==
    client \in ProtocolClients =>
        \A k \in 1..Len(results) :
            /\ ~RLess(results[k].transfer_time, Zero)
            /\ ~RLess(results[k].throughput, Zero)
            /\ results[k].file_size > 0
            /\ ~RLess(results[k].overhead_ratio, RatOfInt(1))

\* the attempts made in experiment e at which download_file returned a sample
Sampled(e) ==
    {i \in 1..attempts[e] : download_file(client, responses[e][i]) # <<>>}

\* the samples of these attempts, in the order of the attempts
RECURSIVE SamplesUpTo(_, _)
SamplesUpTo(e, i) ==
    IF i = 0 THEN <<>>
    ELSE SamplesUpTo(e, i - 1) \o download_file(client, responses[e][i])

\* the name of the file experiment e asks for
FileNameOf(e) == Prefixed("A", Experiments[e].size)

\* the statistics of the transfer time in an entry, wherever the client
\* stores them
TransferTimeOf(entry) ==
    IF "transfer_time" \in DOMAIN entry THEN entry["transfer_time"]
    ELSE entry["transfer_time_seconds"]

\* C28: for every entry a client stores in its document,
\* repetitions_completed is the number of attempts that returned a sample
\* and lies between 1 and the requested repetitions; a file whose attempts
\* all failed has no entry; failed attempts contribute no sample to the
\* statistics.
C28_CompletedRepetitions ==
    client # "none" =>
        \A e \in 1..exp_idx :
            LET file_name == FileNameOf(e)
                samples == SamplesUpTo(e, attempts[e])
            IN  /\ Sampled(e) = {} <=> file_name \notin Keys(results_data)
                /\ file_name \in Keys(results_data) =>
                       LET entry == Get(results_data, file_name)
                       IN  /\ entry.repetitions_completed = Cardinality(Sampled(e))
                           /\ entry.repetitions_completed >= 1
                           /\ entry.repetitions_completed
                                  <= Experiments[e].repetitions
                           /\ entry.raw_results = samples
                           /\ TransferTimeOf(entry)
                                  = calculate_statistics(TransferTimes(samples))

\* src/http1.1/client.py asked twice for A_10kB and once for A_1MB: the first
\* attempt failed, the second gave a sample, the one for A_1MB failed
C28_Witness ==
    /\ client = "http1.1/client.py"
    /\ pc = "save"
    /\ responses[1][1].failed
    /\ ~responses[1][2].failed
    /\ responses[2][1].failed
    /\ Keys(results_data) = {FileNameOf(1)}
    /\ Get(results_data, FileNameOf(1)).repetitions_completed = 1

\* the stream of the response ended before the connection closed or broke
StreamEndedIn(response) ==
    \E k \in 1..Len(response.events) :
        /\ response.events[k].kind = "StreamEnded"
        /\ \A j \in 1..(k - 1) :
               response.events[j].kind \notin {"Closed", "Error"}

\* C29: HTTP2Client.download_file returns a sample only when the stream of
\* the response has ended; when the peer closes the connection before that,
\* or an error occurs, it returns None, so the samples collected are those
\* of the attempts whose stream ended.
C29_SampleOnlyWhenStreamEnded ==
    (client = "http2/client.py" /\ pc \in {"download", "summarize"}) =>
        LET e == exp_idx + 1
        IN  Len(results)
                = Cardinality({i \in 1..attempts[e] :
                                  StreamEndedIn(responses[e][i])})

(***************************************************************************)
(* Properties of the HTTP/2 server, checked under SpecServer.              *)
(***************************************************************************)
\* the file lies in files_dir or in a directory below it
InsideFilesDir(file) ==
    LET dir == SplitPath(files_dir)
        at == SplitPath(file)
    IN  /\ Len(dir) < Len(at)
        /\ SubSeq(at, 1, Len(dir)) = dir

\* C30: the path check confines serving to files_dir: a 200 response with
\* the content of a file is sent only for a file inside files_dir; a path
\* that resolves outside it, through .. segments or to a directory next to
\* it whose name has the name of files_dir as a prefix, gets 403 and no
\* file content.
C30_ServingConfined ==
    \A k \in 1..Len(sent) :
        /\ sent[k].status = 200 => InsideFilesDir(sent[k].data[1])
        /\ sent[k].data # <<>> => sent[k].status = 200

(***************************************************************************)
(* Determinism of merge_protocol_results, checked under SpecMerge.         *)
(***************************************************************************)
\* the sequences that hold every element of a set once
OrdersOf(S) ==
    {order \in [1..Cardinality(S) -> S] :
        \A a, b \in 1..Cardinality(S) : a # b => order[a] # order[b]}

\* the merged data when the loop of lines 48-110 takes the keys in the given
\* order and no key raises
RECURSIVE MergedInOrder(_, _, _)
MergedInOrder(file_results, order, merged) ==
    IF order = <<>> THEN merged
    ELSE LET file_name == Head(order)
             base_size == NormalizeSize(file_name).value
             rs == CollectSizeResults(file_results, file_name, base_size)
         IN  MergedInOrder(file_results, Tail(order),
                           IF rs = <<>> THEN merged
                           ELSE DictPut(merged, base_size, MergeCell(rs)))

\* the result files of the first protocol, in the order given by a
\* permutation of their positions
FilesInOrder(perm) ==
    [j \in 1..Len(perm) |-> protocol_files[1].val[perm[j]]]

\* C27: merge_protocol_results is deterministic: the merged summary of every
\* size label that it returns is the one it returns for any other iteration
\* order of the key set and any other order of the input files, also when a
\* label occurs under different key forms.
C27_MergeDeterministic ==
    protocol_data # <<>> =>
        LET file_results == protocol_files[1].val
        IN  \A perm \in OrdersOf(1..Len(file_results)) :
                \A order \in OrdersOf(AllFileSizes(file_results)) :
                    MergedInOrder(FilesInOrder(perm), order, EmptyDict)
                        = protocol_data[1].val

(***************************************************************************)
(* Properties of the handshake between the runs, checked under SpecSwarm   *)
(* and, for what must eventually happen, under SpecSwarmFair.              *)
(***************************************************************************)
\* the runs after which /ready has answered true to the client
Released(c) ==
    IF client_pc[c] = "done" THEN client_run[c] ELSE client_run[c] - 1

\* C24: once a client has posted /ack for a run, /ready answers false to it
\* until all three clients have acked that run and the seeder loop has
\* logged the run and added the torrent again: a client that has left the
\* polling loop of run k finds run k acked by everyone, logged, and the
\* torrent added again, under any interleaving.
C24_ReadyOnlyAfterLogged ==
    \A c \in Clients : \A k \in 1..Released(c) :
        /\ \A d \in Clients : AcksPosted(d) >= k
        /\ k \in history.logged_rounds
        /\ torrents >= k + 1

\* C25: the seeder loop appends one run summary per round of three acks: it
\* does not append a second summary before FINISHED_CLIENTS has been reset,
\* and FINISHED_CLIENTS is not reset from three acks before a summary has
\* been appended for them.
C25_OneSummaryPerRound ==
    [][/\ Len(log_file') > Len(log_file) => history.logs_since_reset = 0
       /\ (Len(FINISHED_CLIENTS) = RoundSize /\ FINISHED_CLIENTS' = <<>>)
              => history.logs_since_full >= 1]_vars

\* C26: with three clients and fair scheduling, a client that has acked and
\* polls /ready is eventually answered true, in every run, and
\* FINISHED_CLIENTS never holds more than three entries or a duplicate.
C26_HandshakeLive ==
    /\ [](/\ Len(FINISHED_CLIENTS) <= RoundSize
          /\ \A a, b \in 1..Len(FINISHED_CLIENTS) :
                 a # b => FINISHED_CLIENTS[a] # FINISHED_CLIENTS[b])
    /\ \A c \in Clients :
           (client_pc[c] = "ready") ~> (client_pc[c] \in {"download", "done"})

====
